---- MODULE Spec2Model ----
(***************************************************************************)
(* Model of the kro language server's document lifecycle:                  *)
(*   tools/lsp/server/server.go            DocumentStore                    *)
(*   tools/lsp/server/document/manager.go  document.Manager                 *)
(*   tools/lsp/server/handlers/document.go DocumentHandlerImpl, Hover       *)
(*   tools/lsp/server/validation/manager.go validation.Manager              *)
(*   tools/lsp/server/parser/yaml.go       YAMLParser.Parse                 *)
(* Handlers and validation goroutines are threads that interleave at every *)
(* access to the shared stores.  DocumentStore.Get hands out a pointer to  *)
(* the Document object, whose fields are read after the read lock has been *)
(* released: a thread reads the object now in the table, or, once Open or  *)
(* Close has replaced or removed it, the object as it was left.            *)
(***************************************************************************)
EXTENDS Integers, Sequences, FiniteSets, TLC

\* ------------------------------------------------------------------ bounds
NThreads == 2       \* handlers / goroutines that may be in flight together
MaxVersion == 2     \* largest document version the client sends
MaxPending == 1     \* validation goroutines started and not yet scheduled
NSources == 2       \* configured CRD sources
NCyclers == 2       \* LoadCRDs calls that may be in flight together
MaxRecords == 2     \* schemas one source returns at most
MaxOverlapRecords == 1  \* the same, while LoadCRDs calls overlap
MaxDocs == 3        \* pieces of a fetched file
MaxVersions == 2    \* spec.versions entries of one CRD

Threads == 1..NThreads
URIs == {"file:///a.yaml"}

\* ------------------------------------------------------------- YAML texts
\* A text is a sequence of top-level lines "key: value".  A scalar value
\* keeps its YAML type (string or not); a line with ok = FALSE is one the
\* YAML parser rejects.
StrVal(s) == [isString |-> TRUE, v |-> s]
NonStr(s) == [isString |-> FALSE, v |-> s]
Line(k, x) == [ok |-> TRUE, key |-> k, val |-> x]
BadLine == [ok |-> FALSE, key |-> "", val |-> StrVal("")]

KroAPIVersion == "kro.run/v1alpha1"
RGDKind == "ResourceGraphDefinition"

TextRGD == << Line("apiVersion", StrVal(KroAPIVersion)), Line("kind", StrVal(RGDKind)) >>
TextRGDMeta == << Line("apiVersion", StrVal(KroAPIVersion)), Line("kind", StrVal(RGDKind)),
                  Line("metadata", NonStr("{name: x}")) >>
TextYAML == << Line("apiVersion", StrVal("v1")), Line("kind", StrVal("ConfigMap")) >>
TextNear == << Line("apiVersion", StrVal("kro.run/v1alpha2")), Line("kind", StrVal(RGDKind)) >>
TextIntKind == << Line("apiVersion", StrVal(KroAPIVersion)), Line("kind", NonStr("7")) >>
TextNoKind == << Line("apiVersion", StrVal(KroAPIVersion)) >>
TextBad == << Line("apiVersion", StrVal(KroAPIVersion)), Line("kind", StrVal(RGDKind)), BadLine >>

Texts == {TextRGD, TextRGDMeta, TextYAML, TextNear, TextIntKind, TextNoKind, TextBad}

\* the texts the client sends in the lifecycle specification
ClientTexts == {TextRGD, TextYAML, TextBad}

\* ---------------------------------------------------------------- parser
NilModel == [isNil |-> TRUE]

Keys(content) == {content[i].key : i \in 1..Len(content)}

LastIndexOf(content, k) ==
    CHOOSE i \in 1..Len(content) :
        /\ content[i].key = k
        /\ \A j \in (i+1)..Len(content) : content[j].key # k

\* YAMLParser.Parse: an error (no model) when the text is malformed, otherwise
\* a model whose RootMap maps every top-level string key to its value node.
Parse(content) ==
    IF \E i \in 1..Len(content) : ~content[i].ok
    THEN NilModel
    ELSE [isNil |-> FALSE,
          RootMap |-> [k \in Keys(content) |-> content[LastIndexOf(content, k)].val]]

\* strings.Contains on the values the texts use
ContainsStr(s, sub) ==
    \/ s = sub
    \/ sub = "kro.run" /\ s \in {"kro.run/v1alpha1", "kro.run/v1alpha2"}

\* containsRGDMarkers: only the first five lines are looked at
containsRGDMarkers(content) ==
    LET n == IF Len(content) < 5 THEN Len(content) ELSE 5
        hasKroAPIVersion == \E i \in 1..n : content[i].ok /\ content[i].key = "apiVersion"
                                            /\ ContainsStr(content[i].val.v, "kro.run")
        hasRGDKind == \E i \in 1..n : content[i].ok /\ content[i].key = "kind"
                                      /\ ContainsStr(content[i].val.v, RGDKind)
    IN hasKroAPIVersion /\ hasRGDKind

isRGDFile(content) == Len(content) > 0 /\ containsRGDMarkers(content)

\* ------------------------------------------------------------ diagnostics
SyntaxDiag == [Severity |-> "error", Message |-> "Failed to parse YAML document"]
Diag(msg) == [Severity |-> "error", Message |-> msg]

\* RGDValidator.isRGDDocument: decided on the content, not on the model
isRGDDocument(content) ==
    LET m == Parse(content)
    IN /\ ~m.isNil
       /\ "apiVersion" \in DOMAIN m.RootMap /\ "kind" \in DOMAIN m.RootMap
       /\ m.RootMap["apiVersion"] = StrVal(KroAPIVersion)
       /\ m.RootMap["kind"] = StrVal(RGDKind)

\* RGDValidator.validateMetadata on the top-level structure of the text
validateMetadata(content) ==
    IF "metadata" \in Keys(content) THEN <<>> ELSE << Diag("metadata is required") >>

\* RGDValidator.ValidateRGD
ValidateRGD(model, content) ==
    IF ~isRGDDocument(content) THEN <<>> ELSE validateMetadata(content)

\* ------------------------------------------------------------------ state
VARIABLES
    documents,   \* DocumentStore.documents: uri -> the Document [Version, Content]
    dsLock,      \* holder of DocumentStore.mu's write lock, 0 when free
    modelStore,  \* Manager.modelStore: uri -> model or NilModel
    th,          \* per thread: the running handler and its locals
    pendingVal,  \* validation goroutines started but not yet scheduled
    published,   \* last diagnostics list published per uri
    crashed,     \* the process died of a nil dereference
    clientVer,   \* version of the text document on the client side
    \* history variables, read by the properties only
    session,     \* per uri: how the Open and Close calls so far overlapped
    modelHist    \* per uri: tree stored, then parse failure, then tree again

docVars == << documents, dsLock, modelStore, th, pendingVal, published, crashed,
              clientVer, session, modelHist >>

\* the CRD manager (validation/crd_manager.go, and the later manager that
\* holds its lock over the whole cycle)
VARIABLES
    manager,     \* which CRDManager runs: "collect" (crd_manager.go) or "locked"
    crdCache,    \* CRDManager.crdCache: source/name -> schema
    gvkIndex,    \* CRDManager.gvkIndex (cache of the later manager): identity -> schema
    cacheMutex,  \* holder of the write lock of cacheMutex (mu), 0 when free
    cyc,         \* per LoadCRDs call: position, source results so far
    lookup,      \* a GetCRDByGVK call that has read and not yet returned
    \* history variable, read by the properties only
    lastDone     \* source results of the LoadCRDs call that returned last

crdVars == << manager, crdCache, gvkIndex, cacheMutex, cyc, lookup, lastDone >>

\* one fetch of a file by a GitHub source (validation/crd_sources.go, and the
\* source that crd_manager.go constructs)
VARIABLES
    ghSource,    \* which GitHubCRDSource runs: "multi" (crd_sources.go) or "single"
    ghFile,      \* the file served: its pieces between "\n---\n" separators
    ghPc,        \* "fetch" before the download, "done" after the call returned
    ghSchemas,   \* the schemas the call returned
    ghErr        \* the call returned an error

ghVars == << ghSource, ghFile, ghPc, ghSchemas, ghErr >>

\* the background refresh of crd_manager.go and the callers of LoadCRDs
VARIABLES
    tickerC,     \* ticks waiting in refreshTicker.C
    tickerOn,    \* refreshTicker is running
    stopChan,    \* "open" or "closed"
    bg,          \* position of the background goroutine
    stopper,     \* position of the Stop call
    ctx          \* per LoadCRDs call: the context it was given

refreshVars == << tickerC, tickerOn, stopChan, bg, stopper, ctx >>

\* one call of a validator function (validation/rgd_validator.go and the
\* validator package, CRDManager.ValidateAgainstCRD)
VARIABLES
    vFn,         \* the function called
    vIn,         \* its argument
    vPc,         \* "call" before the call, "done" after it returned
    vOut         \* what it returned

valVars == << vFn, vIn, vPc, vOut >>

nonDocVars == << crdVars, ghVars, refreshVars, valVars >>
nonCrdVars == << docVars, ghVars, refreshVars, valVars >>

vars == << docVars, crdVars, ghVars, refreshVars, valVars >>

NoDoc == [Version |-> 0, Content |-> <<>>]

\* op/pc: the handler and its position.  doc: the *Document from GetDocument:
\* "" none, "table" the object the table holds for uri, "orphan" an object
\* that Open or Close took out of the table, kept in snap.  version,
\* newContent: arguments of UpdateDocument.  model, diags: locals of
\* ValidateDocument.  exists, seen, docType: what a GetDocumentType call read
\* and returned.  text, shape: the change event (history); expect: the content
\* written together with the version a reader has read (history).
Idle == [op |-> "idle", pc |-> "idle", uri |-> "", version |-> 0, shape |-> "",
         text |-> <<>>, doc |-> "", snap |-> NoDoc, newContent |-> <<>>,
         model |-> NilModel, diags |-> <<>>, exists |-> FALSE, seen |-> NilModel,
         docType |-> "", expect |-> <<>>]

IsIdle(t) == th[t].pc = "idle"

\* NewManager / NewDocumentStore: empty stores, no handler running
NewManager ==
    /\ documents = [u \in {} |-> NoDoc]
    /\ dsLock = 0
    /\ modelStore = [u \in {} |-> NilModel]
    /\ th = [t \in Threads |-> Idle]
    /\ pendingVal = [u \in URIs |-> 0]
    /\ published = [u \in URIs |-> <<>>]
    /\ crashed = FALSE
    /\ clientVer = [u \in URIs |-> 0]
    /\ session = [u \in URIs |-> "none"]
    /\ modelHist = [u \in URIs |-> "none"]

Cyclers == 1..NCyclers
Sources == 1..NSources

\* a LoadCRDs call: pc its position, got the result of each source queried so
\* far (an error or the returned schemas), old the identities that were cached
\* when it took the lock, ret what it returned last
IdleCycle == [pc |-> "idle", got |-> <<>>, old |-> {}, ret |-> ""]
NoLookup == [pc |-> "idle"]

\* NewCRDManager: empty maps, no call running
NewCRDManager ==
    /\ crdCache = << >>
    /\ gvkIndex = << >>
    /\ cacheMutex = 0
    /\ cyc = [c \in Cyclers |-> IdleCycle]
    /\ lookup = NoLookup
    /\ lastDone = << >>

\* no GitHub fetch under way
NoGitHubFetch ==
    /\ ghSource = "multi"
    /\ ghFile = << >>
    /\ ghPc = "done"
    /\ ghSchemas = << >>
    /\ ghErr = FALSE

\* no validator call under way
NoValidatorCall ==
    /\ vFn = ""
    /\ vIn = << >>
    /\ vPc = "done"
    /\ vOut = << >>

\* NewCRDManager with RefreshInterval = 0: no ticker, no background goroutine
NoBackgroundRefresh ==
    /\ tickerC = 0
    /\ tickerOn = FALSE
    /\ stopChan = "open"
    /\ bg = "none"
    /\ stopper = "idle"
    /\ ctx = [c \in Cyclers |-> "none"]

Init ==
    /\ NewManager
    /\ NoValidatorCall
    /\ NewCRDManager
    /\ manager = "collect"
    /\ NoGitHubFetch
    /\ NoBackgroundRefresh

\* map helpers (Go map assignment and delete)
Put(m, k, x) == [j \in DOMAIN m \cup {k} |-> IF j = k THEN x ELSE m[j]]
Delete(m, k) == [j \in DOMAIN m \ {k} |-> m[j]]

\* a new handler or goroutine takes the first free slot
CanStart(t) == ~crashed /\ IsIdle(t) /\ \A s \in Threads : s < t => ~IsIdle(s)
Running(t, pc) == ~crashed /\ th[t].pc = pc

\* a thread that holds DocumentStore.mu keeps every other store call waiting
StoreFree == dsLock = 0

\* go func() { ValidateDocument(ctx, uri) }()
CanSpawn(u) == pendingVal[u] < MaxPending
Spawn(u) == [pendingVal EXCEPT ![u] = @ + 1]

\* ------------------------------------------------------ thread bookkeeping
Goto(t, pc) == [th[t] EXCEPT !.pc = pc]
Set(t, rec) == th' = [th EXCEPT ![t] = rec]
Return(t) == th' = [th EXCEPT ![t] = Idle]
Call(op, pc, u) == [Idle EXCEPT !.op = op, !.pc = pc, !.uri = u]

InFlight(u, ops) == \E t \in Threads : th[t].uri = u /\ th[t].op \in ops

Quiescent == /\ \A t \in Threads : IsIdle(t)
             /\ \A u \in URIs : pendingVal[u] = 0

\* the Document a thread's pointer leads to
Deref(t) == IF th[t].doc = "table" THEN documents[th[t].uri] ELSE th[t].snap

\* the threads' pointers once the object of u has left the table
Orphaned(u) ==
    [t \in Threads |-> IF th[t].uri = u /\ th[t].doc = "table"
                       THEN [th[t] EXCEPT !.doc = "orphan", !.snap = documents[u]]
                       ELSE th[t]]

\* ---------------------------------------------------------- DocumentStore
\* DocumentStore.Open: a fresh Document object replaces the map entry
DocumentStoreOpen(u, version, content) ==
    /\ StoreFree
    /\ documents' = Put(documents, u, [Version |-> version, Content |-> content])

\* DocumentStore.Get: (doc, exists)
DocumentStoreGet(u) == u \in DOMAIN documents

\* a DocumentStore.Update that would create the entry it does not find
DocumentStoreUpdateUpsert(t, u, version) ==
    /\ StoreFree
    /\ dsLock' = (IF u \in DOMAIN documents THEN t ELSE dsLock)
    /\ documents' = Put(documents, u,
                        [Version |-> version,
                         Content |-> IF u \in DOMAIN documents THEN documents[u].Content
                                     ELSE <<>>])

\* DocumentStore.Update, first half: take the lock, look the uri up, and either
\* return false or write doc.Version
DocumentStoreUpdateVersion(t, u, version) ==
    /\ StoreFree
    /\ IF u \in DOMAIN documents
       THEN /\ dsLock' = t
            /\ documents' = [documents EXCEPT ![u].Version = version]
       ELSE /\ dsLock' = dsLock
            /\ documents' = documents

\* DocumentStore.Update, second half: write doc.Content, release the lock
DocumentStoreUpdateContent(t, u, content) ==
    /\ dsLock = t
    /\ documents' = [documents EXCEPT ![u].Content = content]
    /\ dsLock' = 0

\* DocumentStore.Close
DocumentStoreClose(u) ==
    /\ StoreFree
    /\ documents' = Delete(documents, u)

\* ------------------------------------------------------- document.Manager
\* a parseAndStoreModel that would keep the previous entry when the parse fails
parseAndStoreModelKeepOld(u, content) ==
    modelStore' = IF Parse(content).isNil THEN modelStore
                  ELSE Put(modelStore, u, Parse(content))

\* Manager.parseAndStoreModel: a nil model is stored when the parse fails
parseAndStoreModel(u, content) ==
    modelStore' = Put(modelStore, u, Parse(content))

\* Manager.GetDocumentModel: (model, exists)
ModelExists(u) == u \in DOMAIN modelStore
GetDocumentModel(u) == IF ModelExists(u) THEN modelStore[u] ELSE NilModel

\* Manager.GetDocumentType on what GetDocumentModel returned.  The nil model
\* stored after a failed parse is dereferenced (model.RootMap): a panic.
GetDocumentType(exists, model) ==
    IF ~exists THEN "Unknown"
    ELSE IF model.isNil THEN "panic"
    ELSE IF /\ "apiVersion" \in DOMAIN model.RootMap
            /\ "kind" \in DOMAIN model.RootMap
            /\ model.RootMap["apiVersion"].isString
            /\ model.RootMap["kind"].isString
            /\ model.RootMap["apiVersion"].v = KroAPIVersion
            /\ model.RootMap["kind"].v = RGDKind
         THEN "RGD"
         ELSE "YAML"

\* a call of GetDocumentType by thread t, which goes on at pc: what it read,
\* the result, and the crash
CallGetDocumentType(t, pc) ==
    LET u == th[t].uri
        r == GetDocumentType(ModelExists(u), GetDocumentModel(u))
    IN /\ Set(t, [Goto(t, pc) EXCEPT !.exists = ModelExists(u),
                                     !.seen = GetDocumentModel(u), !.docType = r])
       /\ crashed' = (r = "panic")

\* tree stored, then a failed parse, then a tree again
NextModelHist(h, failed) ==
    IF failed THEN (IF h \in {"tree", "restored"} THEN "failed" ELSE h)
    ELSE (IF h = "failed" THEN "restored" ELSE IF h = "none" THEN "tree" ELSE h)

\* -------------------------------------------------- validation.Manager
\* a publishDiagnostics that would discard a syntax-error list once a tree is
\* stored for the uri (a result older than the stored model)
publishDiagnosticsIfCurrent(u, diagnostics) ==
    published' = IF diagnostics = << SyntaxDiag >> /\ ModelExists(u) /\ ~modelStore[u].isNil
                 THEN published
                 ELSE [published EXCEPT ![u] = diagnostics]

\* Manager.publishDiagnostics with the publisher set
publishDiagnostics(u, diagnostics) ==
    published' = [published EXCEPT ![u] = diagnostics]

\* ------------------------------------------- handlers (DocumentHandlerImpl)
\* DidOpen: OpenDocument stores the raw document first
DidOpen(t, u, content) ==
    /\ CanStart(t)
    /\ clientVer[u] < MaxVersion
    /\ DocumentStoreOpen(u, clientVer[u] + 1, content)
    /\ th' = [Orphaned(u) EXCEPT ![t] = [Call("open", "parse", u) EXCEPT !.newContent = content]]
    /\ clientVer' = [clientVer EXCEPT ![u] = @ + 1]
    /\ session' = [session EXCEPT ![u] = IF InFlight(u, {"close"}) THEN "mixed" ELSE "open"]
    /\ UNCHANGED << nonDocVars, dsLock, modelStore, pendingVal, published, crashed, modelHist >>

\* DidChange: newContent starts as doc.Content and every event of type
\* TextDocumentContentChangeEvent (shape "ranged") overwrites it; an event of
\* type TextDocumentContentChangeEventWhole (shape "whole") is not kept.
DidChangeContent(doc, shape, content) ==
    LET contentChanges == IF shape = "ranged" THEN << content >> ELSE << >>
    IN IF contentChanges = << >> THEN doc.Content
       ELSE contentChanges[Len(contentChanges)]

\* DidChange: GetDocument (a change for an unknown document is dropped), then
\* the new content
DidChange(t, u, shape, content) ==
    /\ CanStart(t)
    /\ StoreFree
    /\ clientVer[u] < MaxVersion
    /\ clientVer' = [clientVer EXCEPT ![u] = @ + 1]
    /\ IF ~DocumentStoreGet(u)
       THEN th' = th
       ELSE Set(t, [Call("change", "update", u) EXCEPT
                       !.version = clientVer[u] + 1, !.shape = shape, !.text = content,
                       !.newContent = DidChangeContent(documents[u], shape, content)])
    /\ UNCHANGED << nonDocVars, documents, dsLock, modelStore, pendingVal, published, crashed,
                    session, modelHist >>

\* DidSave with params.Text set: GetDocument, and the update uses doc.Version
DidSave(t, u, content) ==
    /\ CanStart(t)
    /\ StoreFree
    /\ DocumentStoreGet(u)
    /\ Set(t, [Call("save", "update", u) EXCEPT
                  !.newContent = content, !.version = documents[u].Version])
    /\ UNCHANGED << nonDocVars, documents, dsLock, modelStore, pendingVal, published, crashed,
                    clientVer, session, modelHist >>

\* Manager.UpdateDocument: documentStore.Update; on false it returns nil without
\* parsing, and the handler goes on to its validation trigger
UpdateDocument(t) ==
    /\ Running(t, "update")
    /\ DocumentStoreUpdateVersion(t, th[t].uri, th[t].version)
    /\ IF th[t].uri \in DOMAIN documents
       THEN /\ Set(t, Goto(t, "update_content"))
            /\ pendingVal' = pendingVal
       ELSE /\ isRGDFile(th[t].newContent) => CanSpawn(th[t].uri)
            /\ Return(t)
            /\ pendingVal' = IF isRGDFile(th[t].newContent) THEN Spawn(th[t].uri)
                             ELSE pendingVal
    /\ UNCHANGED << nonDocVars, modelStore, published, crashed, clientVer, session, modelHist >>

UpdateDocumentContent(t) ==
    /\ Running(t, "update_content")
    /\ DocumentStoreUpdateContent(t, th[t].uri, th[t].newContent)
    /\ Set(t, [Goto(t, "parse") EXCEPT !.version = 0, !.shape = "", !.text = <<>>])
    /\ UNCHANGED << nonDocVars, modelStore, pendingVal, published, crashed, clientVer,
                    session, modelHist >>

\* OpenDocument / UpdateDocument: parseAndStoreModel, then the handler returns
\* the parse error, or starts the validation goroutine for an RGD file
ParseAndStore(t) ==
    /\ Running(t, "parse")
    /\ LET u == th[t].uri
           content == th[t].newContent
           failed == Parse(content).isNil
           trigger == ~failed /\ isRGDFile(content)
       IN /\ trigger => CanSpawn(u)
          /\ parseAndStoreModel(u, content)
          /\ pendingVal' = IF trigger THEN Spawn(u) ELSE pendingVal
          /\ modelHist' = [modelHist EXCEPT ![u] = NextModelHist(@, failed)]
    /\ Return(t)
    /\ UNCHANGED << nonDocVars, documents, dsLock, published, crashed, clientVer, session >>

\* DidClose: ClearDiagnostics publishes the empty list
DidClose(t, u) ==
    /\ CanStart(t)
    /\ publishDiagnostics(u, << >>)
    /\ Set(t, Call("close", "close_store", u))
    /\ session' = [session EXCEPT ![u] = IF InFlight(u, {"open", "close"}) THEN "mixed"
                                         ELSE "closing"]
    /\ UNCHANGED << nonDocVars, documents, dsLock, modelStore, pendingVal, crashed, clientVer,
                    modelHist >>

\* Manager.CloseDocument: documentStore.Close
CloseDocument(t) ==
    /\ Running(t, "close_store")
    /\ DocumentStoreClose(th[t].uri)
    /\ th' = [Orphaned(th[t].uri) EXCEPT ![t] = Goto(t, "close_model")]
    /\ UNCHANGED << nonDocVars, dsLock, modelStore, pendingVal, published, crashed, clientVer,
                    session, modelHist >>

\* Manager.CloseDocument: delete(m.modelStore, uri), and the handler returns
CloseDocumentModel(t) ==
    /\ Running(t, "close_model")
    /\ modelStore' = Delete(modelStore, th[t].uri)
    /\ session' = [session EXCEPT ![th[t].uri] = IF @ = "closing" THEN "closed" ELSE @]
    /\ modelHist' = [modelHist EXCEPT ![th[t].uri] = "none"]
    /\ Return(t)
    /\ UNCHANGED << nonDocVars, documents, dsLock, pendingVal, published, crashed, clientVer >>

\* HoverHandler.Hover: GetDocument, then GetDocumentType
Hover(t, u) ==
    /\ CanStart(t)
    /\ StoreFree
    /\ DocumentStoreGet(u)
    /\ Set(t, Call("hover", "hover_type", u))
    /\ UNCHANGED << nonDocVars, documents, dsLock, modelStore, pendingVal, published, crashed,
                    clientVer, session, modelHist >>

HoverType(t) ==
    /\ Running(t, "hover_type")
    /\ CallGetDocumentType(t, "hover_content")
    /\ UNCHANGED << nonDocVars, documents, dsLock, modelStore, pendingVal, published, clientVer,
                    session, modelHist >>

\* Hover: nil for a document that is not an RGD, else getHoverContent(doc, pos)
HoverContent(t) ==
    /\ Running(t, "hover_content")
    /\ Return(t)
    /\ UNCHANGED << nonDocVars, documents, dsLock, modelStore, pendingVal, published, crashed,
                    clientVer, session, modelHist >>

\* A caller of Manager.GetDocument that then reads both fields of the document
GetDocument(t, u) ==
    /\ CanStart(t)
    /\ StoreFree
    /\ DocumentStoreGet(u)
    /\ Set(t, [Call("read", "read_version", u) EXCEPT !.doc = "table"])
    /\ UNCHANGED << nonDocVars, documents, dsLock, modelStore, pendingVal, published, crashed,
                    clientVer, session, modelHist >>

\* the content that the writer of the Version now in t's document wrote, or
\* is about to write, together with it
WrittenWith(t) ==
    IF th[t].doc = "table" /\ dsLock # 0 /\ th[dsLock].uri = th[t].uri
    THEN th[dsLock].newContent
    ELSE Deref(t).Content

ReadVersion(t) ==
    /\ Running(t, "read_version")
    /\ Set(t, [Goto(t, "read_content") EXCEPT !.version = Deref(t).Version,
                                              !.expect = WrittenWith(t)])
    /\ UNCHANGED << nonDocVars, documents, dsLock, modelStore, pendingVal, published, crashed,
                    clientVer, session, modelHist >>

ReadContent(t) ==
    /\ Running(t, "read_content")
    /\ Set(t, [Goto(t, "read_done") EXCEPT !.newContent = Deref(t).Content,
                                           !.doc = "", !.snap = NoDoc])
    /\ UNCHANGED << nonDocVars, documents, dsLock, modelStore, pendingVal, published, crashed,
                    clientVer, session, modelHist >>

ReadDone(t) ==
    /\ Running(t, "read_done")
    /\ Return(t)
    /\ UNCHANGED << nonDocVars, documents, dsLock, modelStore, pendingVal, published, crashed,
                    clientVer, session, modelHist >>

\* ------------------------------------- validation.Manager.ValidateDocument
\* the goroutine starts: GetDocument, return when the uri is not in the table
ValidateDocument(t, u) ==
    /\ CanStart(t)
    /\ StoreFree
    /\ pendingVal[u] > 0
    /\ pendingVal' = [pendingVal EXCEPT ![u] = @ - 1]
    /\ IF ~DocumentStoreGet(u)
       THEN th' = th
       ELSE Set(t, [Call("validate", "validate_model", u) EXCEPT !.doc = "table"])
    /\ UNCHANGED << nonDocVars, documents, dsLock, modelStore, published, crashed, clientVer,
                    session, modelHist >>

\* GetDocumentModel; no entry or a nil model gives the syntax-error list
ValidateModel(t) ==
    /\ Running(t, "validate_model")
    /\ IF ~ModelExists(th[t].uri) \/ GetDocumentModel(th[t].uri).isNil
       THEN Set(t, [Goto(t, "validate_publish") EXCEPT !.diags = << SyntaxDiag >>,
                                                       !.doc = "", !.snap = NoDoc])
       ELSE Set(t, [Goto(t, "validate_type") EXCEPT !.model = GetDocumentModel(th[t].uri)])
    /\ UNCHANGED << nonDocVars, documents, dsLock, modelStore, pendingVal, published, crashed,
                    clientVer, session, modelHist >>

\* GetDocumentType reads the model store a second time
ValidateType(t) ==
    /\ Running(t, "validate_type")
    /\ CallGetDocumentType(t, "validate_rgd")
    /\ UNCHANGED << nonDocVars, documents, dsLock, modelStore, pendingVal, published, clientVer,
                    session, modelHist >>

\* the switch on docType: ValidateRGD(ctx, model, doc.Content) for an RGD, no
\* diagnostics otherwise
ValidateContent(t) ==
    /\ Running(t, "validate_rgd")
    /\ Set(t, [Call("validate", "validate_publish", th[t].uri) EXCEPT
                  !.diags = IF th[t].docType = "RGD"
                            THEN ValidateRGD(th[t].model, Deref(t).Content)
                            ELSE << >>])
    /\ UNCHANGED << nonDocVars, documents, dsLock, modelStore, pendingVal, published, crashed,
                    clientVer, session, modelHist >>

ValidatePublish(t) ==
    /\ Running(t, "validate_publish")
    /\ publishDiagnostics(th[t].uri, th[t].diags)
    /\ Return(t)
    /\ UNCHANGED << nonDocVars, documents, dsLock, modelStore, pendingVal, crashed, clientVer,
                    session, modelHist >>

\* ---------------------------------------------------------- specification
Shapes == {"ranged", "whole"}

Next ==
    \E t \in Threads :
        \/ \E u \in URIs, c \in ClientTexts : DidOpen(t, u, c)
        \/ \E u \in URIs, c \in ClientTexts, sh \in Shapes : DidChange(t, u, sh, c)
        \/ \E u \in URIs, c \in ClientTexts : DidSave(t, u, c)
        \/ UpdateDocument(t)
        \/ UpdateDocumentContent(t)
        \/ ParseAndStore(t)
        \/ \E u \in URIs : DidClose(t, u)
        \/ CloseDocument(t)
        \/ CloseDocumentModel(t)
        \/ \E u \in URIs : Hover(t, u)
        \/ HoverType(t)
        \/ HoverContent(t)
        \/ \E u \in URIs : GetDocument(t, u)
        \/ ReadVersion(t)
        \/ ReadContent(t)
        \/ ReadDone(t)
        \/ \E u \in URIs : ValidateDocument(t, u)
        \/ ValidateModel(t)
        \/ ValidateType(t)
        \/ ValidateContent(t)
        \/ ValidatePublish(t)

Spec == Init /\ [][Next]_vars

\* -------------------------------------------------------------- CRD manager
\* resource-type identities (schema.GroupVersionKind)
Versions == {"v1", "v2"}
GVKs == {[Group |-> "example.com", Version |-> v, Kind |-> "Widget"] : v \in Versions}

\* GroupVersionKind.String(): group + "/" + version + ", Kind=" + kind, kept as
\* its pieces (the names hold none of the separators)
GVKString(gvk) == << gvk.Group, "/", gvk.Version, ", Kind=", gvk.Kind >>

\* an index key that would leave the version out
IndexKeyOfKind(gvk) == IF manager = "collect" THEN gvk.Kind ELSE << gvk.Group, gvk.Kind >>

\* the key of the identity index: the struct in crd_manager.go, its String()
\* in the later manager
IndexKey(gvk) == IF manager = "collect" THEN gvk ELSE GVKString(gvk)

\* CRD.Name of the definition that declares an identity
CRDName(gvk) == << "widgets", gvk.Group >>

\* the j-th *CRDSchema that source s returned
CRDSchema(gvk, s, j) == [GVK |-> gvk, Source |-> s, Index |-> j]

\* what source.LoadCRDs(ctx) may answer: (nil, err), or (schemas, nil) with the
\* identities of the schemas in order
SourceResults ==
    {[err |-> TRUE, schemas |-> << >>]}
    \cup {[err |-> FALSE, schemas |-> q] : q \in UNION {[1..n -> GVKs] : n \in 0..MaxRecords}}

\* the answer of source s: its schemas are objects of their own
Returned(s, r) ==
    [err |-> r.err,
     schemas |-> [j \in 1..Len(r.schemas) |-> CRDSchema(r.schemas[j], s, j)]]

\* allSchemas = append(allSchemas, schemas...) over the sources that succeeded
RECURSIVE AllSchemas(_)
AllSchemas(got) ==
    IF got = << >> THEN << >>
    ELSE (IF Head(got).err THEN << >> ELSE Head(got).schemas) \o AllSchemas(Tail(got))

\* an updateCache that would keep the first schema of an identity
RECURSIVE IndexByGVKFirst(_, _)
IndexByGVKFirst(index, schemas) ==
    IF schemas = << >> THEN index
    ELSE IndexByGVKFirst(IF IndexKey(Head(schemas).GVK) \in DOMAIN index THEN index
                         ELSE Put(index, IndexKey(Head(schemas).GVK), Head(schemas)),
                         Tail(schemas))

\* for _, schema := range schemas { m.gvkIndex[schema.GVK] = schema }
RECURSIVE IndexByGVK(_, _)
IndexByGVK(index, schemas) ==
    IF schemas = << >> THEN index
    ELSE IndexByGVK(Put(index, IndexKey(Head(schemas).GVK), Head(schemas)), Tail(schemas))

\* for _, schema := range schemas { m.crdCache[source/name] = schema }
RECURSIVE IndexByName(_, _)
IndexByName(index, schemas) ==
    IF schemas = << >> THEN index
    ELSE IndexByName(Put(index, << Head(schemas).Source, CRDName(Head(schemas).GVK) >>,
                         Head(schemas)),
                     Tail(schemas))

\* a new LoadCRDs call takes the first free slot
CanStartCycle(c) == cyc[c].pc = "idle" /\ \A d \in Cyclers : d < c => cyc[d].pc # "idle"

\* a read that would not take the lock
ReadableUnlocked == TRUE

\* cacheMutex.RLock() succeeds when no writer holds the lock
Readable == cacheMutex = 0

\* CRDManager.LoadCRDs (crd_manager.go): the call starts with no schemas
LoadCRDs(c) ==
    /\ manager = "collect"
    /\ CanStartCycle(c)
    /\ cyc' = [cyc EXCEPT ![c] = [IdleCycle EXCEPT !.pc = "query"]]
    /\ UNCHANGED << nonCrdVars, manager, crdCache, gvkIndex, cacheMutex, lookup, lastDone >>

\* a loop body that would give up at the first source error
LoadCRDsLoopAbort(cy, r) ==
    IF r.err THEN [IdleCycle EXCEPT !.ret = "err"]
    ELSE [cy EXCEPT !.got = Append(@, Returned(Len(@) + 1, r)),
                    !.pc = IF Len(cy.got) + 1 = NSources THEN "update" ELSE "query"]

\* the loop body: the next source answers r; an error is logged and skipped
LoadCRDsLoop(cy, r) ==
    [cy EXCEPT !.got = Append(@, Returned(Len(@) + 1, r)),
               !.pc = IF Len(cy.got) + 1 = NSources THEN "update" ELSE "query"]

SourceLoadCRDs(c, r) ==
    /\ cyc[c].pc = "query"
    /\ cyc' = [cyc EXCEPT ![c] = LoadCRDsLoop(@, r)]
    /\ UNCHANGED << nonCrdVars, manager, crdCache, gvkIndex, cacheMutex, lookup, lastDone >>

\* an updateCache that would keep the maps it finds
updateCacheKeep(c) ==
    /\ cyc[c].pc = "update"
    /\ cacheMutex = 0
    /\ cacheMutex' = c
    /\ cyc' = [cyc EXCEPT ![c].pc = "populate", ![c].old = DOMAIN gvkIndex]
    /\ UNCHANGED << nonCrdVars, manager, crdCache, gvkIndex, lookup, lastDone >>

\* updateCache: take the write lock and replace both maps by empty ones
updateCacheClear(c) ==
    /\ cyc[c].pc = "update"
    /\ cacheMutex = 0
    /\ cacheMutex' = c
    /\ crdCache' = << >>
    /\ gvkIndex' = << >>
    /\ cyc' = [cyc EXCEPT ![c].pc = "populate", ![c].old = DOMAIN gvkIndex]
    /\ UNCHANGED << nonCrdVars, manager, lookup, lastDone >>

\* updateCache: populate both maps from the collected schemas
updateCachePopulate(c) ==
    /\ cyc[c].pc = "populate"
    /\ crdCache' = IndexByName(crdCache, AllSchemas(cyc[c].got))
    /\ gvkIndex' = IndexByGVK(gvkIndex, AllSchemas(cyc[c].got))
    /\ cyc' = [cyc EXCEPT ![c].pc = "unlock"]
    /\ UNCHANGED << nonCrdVars, manager, cacheMutex, lookup, lastDone >>

\* the deferred Unlock, and LoadCRDs returns nil
LoadCRDsReturn(c) ==
    /\ cyc[c].pc = "unlock"
    /\ cacheMutex' = 0
    /\ lastDone' = cyc[c].got
    /\ cyc' = [cyc EXCEPT ![c] = [IdleCycle EXCEPT !.ret = "nil"]]
    /\ UNCHANGED << nonCrdVars, manager, crdCache, gvkIndex, lookup >>

\* CRDManager.LoadCRDs of the later manager: the write lock is taken first and
\* held over the whole call, and the cache is replaced by an empty map
LoadCRDsLocked(c) ==
    /\ manager = "locked"
    /\ CanStartCycle(c)
    /\ cacheMutex = 0
    /\ cacheMutex' = c
    /\ gvkIndex' = << >>
    /\ cyc' = [cyc EXCEPT ![c] = [IdleCycle EXCEPT !.pc = "query_locked",
                                                   !.old = DOMAIN gvkIndex]]
    /\ UNCHANGED << nonCrdVars, manager, crdCache, lookup, lastDone >>

\* its loop body: the next source answers r; its schemas go into the cache
SourceLoadCRDsLocked(c, r) ==
    /\ cyc[c].pc = "query_locked"
    /\ gvkIndex' = IF r.err THEN gvkIndex
                   ELSE IndexByGVK(gvkIndex, Returned(Len(cyc[c].got) + 1, r).schemas)
    /\ cyc' = [cyc EXCEPT ![c].got = Append(@, Returned(Len(@) + 1, r)),
                          ![c].pc = IF Len(cyc[c].got) + 1 = NSources THEN "unlock"
                                    ELSE "query_locked"]
    /\ UNCHANGED << nonCrdVars, manager, crdCache, cacheMutex, lookup, lastDone >>

\* CRDManager.GetAllCRDs: the schemas of crdCache, collected under the read
\* lock (the order of the slice is the order of the map iteration; its
\* elements are kept)
GetAllCRDs == {crdCache[key] : key \in DOMAIN crdCache}

\* CRDManager.GetCRDByGVK / GetCRDSchema: one map read under the read lock
GetCRDByGVK(gvk) ==
    /\ lookup.pc = "idle"
    /\ Readable
    /\ lookup' = [pc |-> "read", gvk |-> gvk,
                  exists |-> IndexKey(gvk) \in DOMAIN gvkIndex,
                  schema |-> IF IndexKey(gvk) \in DOMAIN gvkIndex
                             THEN gvkIndex[IndexKey(gvk)] ELSE CRDSchema(gvk, 0, 0)]
    /\ UNCHANGED << nonCrdVars, manager, crdCache, gvkIndex, cacheMutex, cyc, lastDone >>

GetCRDByGVKReturn ==
    /\ lookup.pc = "read"
    /\ lookup' = NoLookup
    /\ UNCHANGED << nonCrdVars, manager, crdCache, gvkIndex, cacheMutex, cyc, lastDone >>

InitCRD ==
    /\ NewManager
    /\ NoValidatorCall
    /\ NewCRDManager
    /\ manager \in {"collect", "locked"}
    /\ NoGitHubFetch
    /\ NoBackgroundRefresh

\* the calls of cyclers C whose sources answer from R, and the lookups
NextCRDOf(C, R) ==
    \/ \E c \in C : LoadCRDs(c)
    \/ \E c \in C, r \in R : SourceLoadCRDs(c, r)
    \/ \E c \in C : updateCacheClear(c)
    \/ \E c \in C : updateCachePopulate(c)
    \/ \E c \in C : LoadCRDsReturn(c)
    \/ \E c \in C : LoadCRDsLocked(c)
    \/ \E c \in C, r \in R : SourceLoadCRDsLocked(c, r)
    \/ \E gvk \in GVKs : GetCRDByGVK(gvk)
    \/ GetCRDByGVKReturn

\* overlapping LoadCRDs calls, sources that return up to MaxOverlapRecords schemas
NextCRD ==
    NextCRDOf(Cyclers, {r \in SourceResults : Len(r.schemas) <= MaxOverlapRecords})

SpecCRD == InitCRD /\ [][NextCRD]_vars

\* one LoadCRDs call after the other, sources that return up to MaxRecords schemas
NextCRDSeq == NextCRDOf({1}, SourceResults)

SpecCRDSeq == InitCRD /\ [][NextCRDSeq]_vars

\* ------------------------------------------------------------ GitHub source
\* spec.versions of a CRD: name and served flag of each entry, in order
VersionLists ==
    UNION {[1..n -> [Name : Versions, Served : BOOLEAN]] : n \in 0..MaxVersions}

\* a piece that holds nothing but white space
BlankDoc == [kind |-> "", versions |-> << >>]

\* the pieces a file may hold: CRDs, another kind of object, blank pieces
Docs ==
    {[kind |-> "CustomResourceDefinition", versions |-> vs] : vs \in VersionLists}
    \cup {[kind |-> "ConfigMap", versions |-> << >>], BlankDoc}

Files == UNION {[1..n -> Docs] : n \in 0..MaxDocs}

\* the *CRDSchema made for version name of the CRD in piece i
GitHubSchema(i, name) ==
    [GVK |-> [Group |-> "example.com", Version |-> name, Kind |-> "Widget"], CRD |-> i]

\* splitYAMLDocuments: the numbers of the pieces that are not blank
splitYAMLDocuments(file) == {i \in DOMAIN file : file[i] # BlankDoc}

\* for _, version := range crd.Spec.Versions: a schema per served version
RECURSIVE ServedSchemas(_, _, _)
ServedSchemas(file, i, k) ==
    IF k > Len(file[i].versions) THEN << >>
    ELSE (IF file[i].versions[k].Served
          THEN << GitHubSchema(i, file[i].versions[k].Name) >> ELSE << >>)
         \o ServedSchemas(file, i, k + 1)

\* for _, doc := range documents: skip what is not a CustomResourceDefinition
RECURSIVE DocumentSchemas(_, _)
DocumentSchemas(file, i) ==
    IF i > Len(file) THEN << >>
    ELSE (IF i \in splitYAMLDocuments(file) /\ file[i].kind = "CustomResourceDefinition"
          THEN ServedSchemas(file, i, 1) ELSE << >>)
         \o DocumentSchemas(file, i + 1)

\* GitHubCRDSource.loadCRDsFromGitHub (crd_sources.go)
loadCRDsFromGitHub ==
    /\ ghSource = "multi"
    /\ ghPc = "fetch"
    /\ ghSchemas' = DocumentSchemas(ghFile, 1)
    /\ ghErr' = (DocumentSchemas(ghFile, 1) = << >>)
    /\ ghPc' = "done"
    /\ UNCHANGED << docVars, valVars, crdVars, refreshVars, ghSource, ghFile >>

\* yaml.Unmarshal(data, &crd) decodes the first document of the file: the first
\* piece, or the second one when the file starts with a separator
FirstDocument(file) ==
    IF file = << >> THEN 0
    ELSE IF file[1] # BlankDoc \/ Len(file) = 1 THEN 1
    ELSE 2

\* getLatestVersion: the first served version, else the first version, else ""
getLatestVersion(versions) ==
    IF versions = << >> THEN ""
    ELSE IF \E k \in DOMAIN versions : versions[k].Served
         THEN versions[CHOOSE k \in DOMAIN versions :
                          /\ versions[k].Served
                          /\ \A l \in DOMAIN versions : versions[l].Served => k <= l].Name
         ELSE versions[1].Name

\* GitHubCRDSource.downloadAndParseCRD (the source crd_manager.go constructs):
\* nil for a file that is no CRD, else one schema
downloadAndParseCRD ==
    /\ ghSource = "single"
    /\ ghPc = "fetch"
    /\ ghSchemas' =
          IF FirstDocument(ghFile) = 0
             \/ ghFile[FirstDocument(ghFile)].kind # "CustomResourceDefinition"
          THEN << >>
          ELSE << GitHubSchema(FirstDocument(ghFile),
                               getLatestVersion(ghFile[FirstDocument(ghFile)].versions)) >>
    /\ ghErr' = FALSE
    /\ ghPc' = "done"
    /\ UNCHANGED << docVars, valVars, crdVars, refreshVars, ghSource, ghFile >>

InitGitHub ==
    /\ NewManager
    /\ NoValidatorCall
    /\ NewCRDManager
    /\ manager = "collect"
    /\ NoBackgroundRefresh
    /\ ghSource \in {"multi", "single"}
    /\ ghFile \in Files
    /\ ghPc = "fetch"
    /\ ghSchemas = << >>
    /\ ghErr = FALSE

NextGitHub ==
    \/ loadCRDsFromGitHub
    \/ downloadAndParseCRD

SpecGitHub == InitGitHub /\ [][NextGitHub]_vars

\* ------------------------------------------------------ background refresh
\* slots of the LoadCRDs callers
BackgroundCall == 1   \* the background goroutine; loadSettings of the later manager
StartupCall == 2      \* the startup goroutine of NewKroServer

\* the runtime puts a tick in refreshTicker.C while the ticker runs; a tick
\* that finds one waiting is dropped
Tick ==
    /\ tickerOn
    /\ tickerC = 0
    /\ tickerC' = 1
    /\ UNCHANGED << docVars, valVars, crdVars, ghVars, tickerOn, stopChan, bg, stopper, ctx >>

\* startBackgroundRefresh: select takes case <-m.refreshTicker.C; with both
\* cases ready either may be taken
startBackgroundRefreshTick ==
    /\ bg = "select"
    /\ tickerC = 1
    /\ tickerC' = 0
    /\ bg' = "ticked"
    /\ UNCHANGED << docVars, valVars, crdVars, ghVars, tickerOn, stopChan, stopper, ctx >>

\* ctx with a 2 minute timeout, m.RefreshCRDs(ctx) enters LoadCRDs
startBackgroundRefreshCycle ==
    /\ bg = "ticked"
    /\ bg' = "cycle"
    /\ ctx' = [ctx EXCEPT ![BackgroundCall] = "deadline"]
    /\ cyc' = [cyc EXCEPT ![BackgroundCall] = [IdleCycle EXCEPT !.pc = "query"]]
    /\ UNCHANGED << docVars, valVars, ghVars, manager, crdCache, gvkIndex, cacheMutex, lookup,
                    lastDone, tickerC, tickerOn, stopChan, stopper >>

\* RefreshCRDs returned: cancel(), back to the select
startBackgroundRefreshNext ==
    /\ bg = "cycle"
    /\ cyc[BackgroundCall].pc = "idle"
    /\ bg' = "select"
    /\ ctx' = [ctx EXCEPT ![BackgroundCall] = "none"]
    /\ UNCHANGED << docVars, valVars, crdVars, ghVars, tickerC, tickerOn, stopChan, stopper >>

\* select takes case <-m.stopChan: the ticker is stopped, the goroutine returns;
\* a stopped ticker delivers no tick (Go 1.24)
startBackgroundRefreshStop ==
    /\ bg = "select"
    /\ stopChan = "closed"
    /\ tickerOn' = FALSE
    /\ tickerC' = 0
    /\ bg' = "exited"
    /\ UNCHANGED << docVars, valVars, crdVars, ghVars, stopChan, stopper, ctx >>

\* KroServer.Shutdown -> CRDManager.Stop with a ticker: close(m.stopChan)
Stop ==
    /\ bg # "none"
    /\ stopper = "idle"
    /\ stopChan' = "closed"
    /\ stopper' = "closing"
    /\ UNCHANGED << docVars, valVars, crdVars, ghVars, tickerC, tickerOn, bg, ctx >>

\* m.refreshTicker.Stop(), and Stop returns
StopReturn ==
    /\ stopper = "closing"
    /\ tickerOn' = FALSE
    /\ tickerC' = 0
    /\ stopper' = "returned"
    /\ UNCHANGED << docVars, valVars, crdVars, ghVars, stopChan, bg, ctx >>

\* NewKroServer: go func() { ctx with a 2 minute timeout; crdManager.LoadCRDs(ctx) }
StartupLoadCRDs ==
    /\ manager = "collect"
    /\ cyc[StartupCall].pc = "idle"
    /\ cyc[StartupCall].ret = ""
    /\ ctx' = [ctx EXCEPT ![StartupCall] = "deadline"]
    /\ cyc' = [cyc EXCEPT ![StartupCall] = [IdleCycle EXCEPT !.pc = "query"]]
    /\ UNCHANGED << docVars, valVars, ghVars, manager, crdCache, gvkIndex, cacheMutex, lookup,
                    lastDone, tickerC, tickerOn, stopChan, bg, stopper >>

\* ValidationManager.loadSettings: ctx := context.Background();
\* vm.crdManager.LoadCRDs(ctx) of the later manager
loadSettings ==
    /\ manager = "locked"
    /\ cyc[BackgroundCall].pc = "idle"
    /\ cyc[BackgroundCall].ret = ""
    /\ cacheMutex = 0
    /\ cacheMutex' = BackgroundCall
    /\ gvkIndex' = << >>
    /\ ctx' = [ctx EXCEPT ![BackgroundCall] = "background"]
    /\ cyc' = [cyc EXCEPT ![BackgroundCall] = [IdleCycle EXCEPT !.pc = "query_locked",
                                                                !.old = DOMAIN gvkIndex]]
    /\ UNCHANGED << docVars, valVars, ghVars, manager, crdCache, lookup, lastDone,
                    tickerC, tickerOn, stopChan, bg, stopper >>

\* NewCRDManager with RefreshInterval > 0 starts the ticker and the goroutine;
\* the later manager has neither
InitRefresh ==
    /\ NewManager
    /\ NoValidatorCall
    /\ NewCRDManager
    /\ NoGitHubFetch
    /\ manager \in {"collect", "locked"}
    /\ tickerC = 0
    /\ tickerOn = (manager = "collect")
    /\ stopChan = "open"
    /\ bg = IF manager = "collect" THEN "select" ELSE "none"
    /\ stopper = "idle"
    /\ ctx = [c \in Cyclers |-> "none"]

NextRefresh ==
    \/ Tick
    \/ startBackgroundRefreshTick
    \/ startBackgroundRefreshCycle
    \/ startBackgroundRefreshNext
    \/ startBackgroundRefreshStop
    \/ Stop
    \/ StopReturn
    \/ StartupLoadCRDs
    \/ loadSettings
    \/ \E c \in Cyclers, r \in {q \in SourceResults : Len(q.schemas) <= MaxOverlapRecords} :
          SourceLoadCRDs(c, r)
    \/ \E c \in Cyclers : updateCacheClear(c)
    \/ \E c \in Cyclers : updateCachePopulate(c)
    \/ \E c \in Cyclers : LoadCRDsReturn(c)
    \/ \E c \in Cyclers, r \in {q \in SourceResults : Len(q.schemas) <= MaxOverlapRecords} :
          SourceLoadCRDsLocked(c, r)

SpecRefresh == InitRefresh /\ [][NextRefresh]_vars

\* ------------------------------------------------------------ identifiers
\* an identifier is the sequence of its characters
UpperLetters == << "A", "B", "C", "D", "E", "F", "G", "H", "I", "J", "K", "L", "M",
                   "N", "O", "P", "Q", "R", "S", "T", "U", "V", "W", "X", "Y", "Z" >>
LowerLetters == << "a", "b", "c", "d", "e", "f", "g", "h", "i", "j", "k", "l", "m",
                   "n", "o", "p", "q", "r", "s", "t", "u", "v", "w", "x", "y", "z" >>
Digits == {"0", "1", "2", "3", "4", "5", "6", "7", "8", "9"}

IsUpper(c) == \E i \in DOMAIN UpperLetters : UpperLetters[i] = c
IsLower(c) == \E i \in DOMAIN LowerLetters : LowerLetters[i] = c
IsAlnum(c) == IsUpper(c) \/ IsLower(c) \/ c \in Digits

\* the lower-case form of a character
ToLower(c) ==
    IF IsUpper(c) THEN LowerLetters[CHOOSE i \in DOMAIN UpperLetters : UpperLetters[i] = c]
    ELSE c

\* strings.EqualFold
EqualFold(a, b) ==
    /\ Len(a) = Len(b)
    /\ \A i \in DOMAIN a : ToLower(a[i]) = ToLower(b[i])

\* upperCamelCaseRegex ^[A-Z][a-zA-Z0-9]*$
upperCamelCaseRegex(name) ==
    /\ name # << >>
    /\ IsUpper(name[1])
    /\ \A i \in 2..Len(name) : IsAlnum(name[i])

\* lowerCamelCaseRegex ^[a-z][a-zA-Z0-9]*$
lowerCamelCaseRegex(name) ==
    /\ name # << >>
    /\ IsLower(name[1])
    /\ \A i \in 2..Len(name) : IsAlnum(name[i])

isValidKindName(name) == upperCamelCaseRegex(name)

\* an id check that would take letters only
isValidResourceIDLetters(id) ==
    /\ id # << >>
    /\ IsLower(id[1])
    /\ \A i \in 2..Len(id) : IsUpper(id[i]) \/ IsLower(id[i])

isValidResourceID(id) == lowerCamelCaseRegex(id)

reservedWords ==
    {<< "a", "p", "i", "V", "e", "r", "s", "i", "o", "n" >>,
     << "c", "o", "n", "t", "e", "x", "t" >>,
     << "d", "e", "p", "e", "n", "d", "e", "n", "c", "y" >>,
     << "d", "e", "p", "e", "n", "d", "e", "n", "c", "i", "e", "s" >>,
     << "e", "x", "t", "e", "r", "n", "a", "l", "R", "e", "f" >>,
     << "e", "x", "t", "e", "r", "n", "a", "l", "R", "e", "f", "e", "r", "e", "n", "c", "e" >>,
     << "e", "x", "t", "e", "r", "n", "a", "l", "R", "e", "f", "s" >>,
     << "e", "x", "t", "e", "r", "n", "a", "l", "R", "e", "f", "e", "r", "e", "n", "c", "e", "s" >>,
     << "g", "r", "a", "p", "h" >>,
     << "i", "n", "s", "t", "a", "n", "c", "e" >>,
     << "k", "i", "n", "d" >>,
     << "m", "e", "t", "a", "d", "a", "t", "a" >>,
     << "n", "a", "m", "e", "s", "p", "a", "c", "e" >>,
     << "o", "b", "j", "e", "c", "t" >>,
     << "r", "e", "s", "o", "u", "r", "c", "e" >>,
     << "r", "e", "s", "o", "u", "r", "c", "e", "g", "r", "a", "p", "h",
        "d", "e", "f", "i", "n", "i", "t", "i", "o", "n" >>,
     << "r", "e", "s", "o", "u", "r", "c", "e", "s" >>,
     << "r", "u", "n", "t", "i", "m", "e" >>,
     << "s", "e", "r", "v", "i", "c", "e", "A", "c", "c", "o", "u", "n", "t",
        "N", "a", "m", "e" >>,
     << "s", "c", "h", "e", "m", "a" >>,
     << "s", "p", "e", "c" >>,
     << "s", "t", "a", "t", "u", "s" >>,
     << "k", "r", "o" >>,
     << "v", "a", "r", "i", "a", "b", "l", "e", "s" >>,
     << "v", "a", "r", "s" >>,
     << "v", "e", "r", "s", "i", "o", "n" >>}

\* a reserved-word check that would compare the exact spelling
isKroReservedWordExact(word) == \E reserved \in reservedWords : word = reserved

isKroReservedWord(word) == \E reserved \in reservedWords : EqualFold(word, reserved)

\* ------------------------------------------------------- field definitions
\* a string is the sequence of its characters
ValidationError(message, rule, path) == [Message |-> message, Rule |-> rule, Path |-> path]

\* strings.TrimSpace: the blank is the only white space the inputs hold
TrimSpace(s) ==
    LET solid == {i \in DOMAIN s : s[i] # " "}
    IN  IF solid = {} THEN << >>
        ELSE SubSeq(s, CHOOSE i \in solid : \A j \in solid : i <= j,
                       CHOOSE i \in solid : \A j \in solid : i >= j)

\* strings.HasPrefix
HasPrefix(s, prefix) == Len(s) >= Len(prefix) /\ SubSeq(s, 1, Len(prefix)) = prefix

\* strings.SplitN with a separator of one character and n >= 1; n = 0 stands
\* for strings.Split, which has no limit
RECURSIVE SplitN(_, _, _)
SplitN(s, sep, n) ==
    LET at == {i \in DOMAIN s : s[i] = sep}
    IN  IF n = 1 \/ at = {} THEN << s >>
        ELSE LET i == CHOOSE k \in at : \A j \in at : k <= j
             IN  << SubSeq(s, 1, i - 1) >>
                   \o SplitN(SubSeq(s, i + 1, Len(s)), sep, IF n = 0 THEN 0 ELSE n - 1)

validBaseTypes ==
    {<< "s", "t", "r", "i", "n", "g" >>,
     << "i", "n", "t", "e", "g", "e", "r" >>,
     << "b", "o", "o", "l", "e", "a", "n" >>,
     << "n", "u", "m", "b", "e", "r" >>,
     << "o", "b", "j", "e", "c", "t" >>}

validModifiers ==
    {<< "r", "e", "q", "u", "i", "r", "e", "d" >>,
     << "d", "e", "f", "a", "u", "l", "t" >>,
     << "d", "e", "s", "c", "r", "i", "p", "t", "i", "o", "n" >>,
     << "m", "i", "n", "i", "m", "u", "m" >>,
     << "m", "a", "x", "i", "m", "u", "m" >>,
     << "e", "n", "u", "m" >>,
     << "f", "o", "r", "m", "a", "t" >>,
     << "p", "a", "t", "t", "e", "r", "n" >>,
     << "m", "i", "n", "L", "e", "n", "g", "t", "h" >>,
     << "m", "a", "x", "L", "e", "n", "g", "t", "h" >>,
     << "m", "i", "n", "I", "t", "e", "m", "s" >>,
     << "m", "a", "x", "I", "t", "e", "m", "s" >>,
     << "u", "n", "i", "q", "u", "e", "I", "t", "e", "m", "s" >>}

\* mapRegex.FindStringSubmatch for ^map\[(.+)\](.+)$: the first group is
\* greedy, so it ends at the last "]" that still leaves a character after
\* it; no match is the empty sequence
mapRegex(baseType) ==
    LET closing == {k \in 6..(Len(baseType) - 1) : baseType[k] = "]"}
    IN  IF HasPrefix(baseType, << "m", "a", "p", "[" >>) /\ closing # {}
        THEN LET k == CHOOSE c \in closing : \A d \in closing : c >= d
             IN  << baseType, SubSeq(baseType, 5, k - 1),
                    SubSeq(baseType, k + 1, Len(baseType)) >>
        ELSE << >>

RECURSIVE validateBaseType(_, _)
validateBaseType(baseType, path) ==
    IF baseType = << >>
    THEN << ValidationError("base type cannot be empty", "empty-type", path) >>
    ELSE IF baseType \in validBaseTypes THEN << >>
    ELSE IF HasPrefix(baseType, << "[", "]" >>)
    THEN LET elementType == SubSeq(baseType, 3, Len(baseType))
         IN  IF elementType = << >>
             THEN << ValidationError("array element type cannot be empty",
                                     "empty-element-type", path) >>
             ELSE validateBaseType(elementType, path)
    ELSE IF HasPrefix(baseType, << "m", "a", "p", "[" >>)
    THEN LET matches == mapRegex(baseType)
         IN  IF Len(matches) # 3
             THEN << ValidationError("invalid map type syntax", "invalid-syntax", path) >>
             ELSE validateBaseType(TrimSpace(matches[2]), path)
                  \o validateBaseType(TrimSpace(matches[3]), path)
    ELSE << ValidationError("invalid type", "invalid-type", path) >>

\* parseModifiers: the loop over the characters from position i on
RECURSIVE parseModifiersLoop(_, _, _, _, _, _)
parseModifiersLoop(modifiers, i, pairs, current, inQuotes, quoteChar) ==
    IF i > Len(modifiers)
    THEN IF Len(current) > 0 THEN Append(pairs, current) ELSE pairs
    ELSE LET char == modifiers[i]
         IN  IF ~inQuotes /\ char \in {"'", "\""}
             THEN parseModifiersLoop(modifiers, i + 1, pairs, Append(current, char), TRUE, char)
             ELSE IF inQuotes /\ char = quoteChar
             THEN parseModifiersLoop(modifiers, i + 1, pairs, Append(current, char), FALSE, "")
             ELSE IF ~inQuotes /\ char = " "
             THEN IF Len(current) > 0
                  THEN parseModifiersLoop(modifiers, i + 1, Append(pairs, current), << >>,
                                          inQuotes, quoteChar)
                  ELSE parseModifiersLoop(modifiers, i + 1, pairs, current, inQuotes, quoteChar)
             ELSE parseModifiersLoop(modifiers, i + 1, pairs, Append(current, char),
                                     inQuotes, quoteChar)

parseModifiers(modifiers) == parseModifiersLoop(modifiers, 1, << >>, << >>, FALSE, "")

\* an optional sign taken off
Unsigned(value) ==
    IF value # << >> /\ value[1] \in {"+", "-"} THEN Tail(value) ELSE value

\* strconv.Atoi returns no error: an optional sign and decimal digits
Atoi(value) ==
    LET digits == Unsigned(value)
    IN  digits # << >> /\ \A i \in DOMAIN digits : digits[i] \in Digits

\* strconv.ParseFloat returns no error, for the forms without exponent, hex
\* digits and underscores: a decimal number with at most one point, a signed
\* infinity, or NaN
ParseFloat(value) ==
    LET mantissa == Unsigned(value)
        points == {i \in DOMAIN mantissa : mantissa[i] = "."}
    IN  \/ /\ Cardinality(points) <= 1
           /\ \A i \in DOMAIN mantissa \ points : mantissa[i] \in Digits
           /\ DOMAIN mantissa # points
        \/ EqualFold(mantissa, << "i", "n", "f" >>)
        \/ EqualFold(mantissa, << "i", "n", "f", "i", "n", "i", "t", "y" >>)
        \/ EqualFold(value, << "n", "a", "n" >>)

BoolWords == {<< "t", "r", "u", "e" >>, << "f", "a", "l", "s", "e" >>}

\* a value check that would look at the two boolean modifiers only
validateModifierValueBoolOnly(name, value, path) ==
    IF name = << "r", "e", "q", "u", "i", "r", "e", "d" >> /\ value \notin BoolWords
    THEN << ValidationError("required modifier must be 'true' or 'false'",
                            "invalid-value", path) >>
    ELSE IF name = << "u", "n", "i", "q", "u", "e", "I", "t", "e", "m", "s" >>
            /\ value \notin BoolWords
    THEN << ValidationError("uniqueItems modifier must be 'true' or 'false'",
                            "invalid-value", path) >>
    ELSE << >>

validateModifierValue(name, value, path) ==
    IF name = << "r", "e", "q", "u", "i", "r", "e", "d" >>
    THEN IF value \notin BoolWords
         THEN << ValidationError("required modifier must be 'true' or 'false'",
                                 "invalid-value", path) >>
         ELSE << >>
    ELSE IF name \in {<< "m", "i", "n", "i", "m", "u", "m" >>,
                      << "m", "a", "x", "i", "m", "u", "m" >>}
    THEN IF ~ParseFloat(value)
         THEN << ValidationError("modifier must be a number", "invalid-value", path) >>
         ELSE << >>
    ELSE IF name \in {<< "m", "i", "n", "L", "e", "n", "g", "t", "h" >>,
                      << "m", "a", "x", "L", "e", "n", "g", "t", "h" >>,
                      << "m", "i", "n", "I", "t", "e", "m", "s" >>,
                      << "m", "a", "x", "I", "t", "e", "m", "s" >>}
    THEN IF ~Atoi(value)
         THEN << ValidationError("modifier must be an integer", "invalid-value", path) >>
         ELSE << >>
    ELSE IF name = << "u", "n", "i", "q", "u", "e", "I", "t", "e", "m", "s" >>
    THEN IF value \notin BoolWords
         THEN << ValidationError("uniqueItems modifier must be 'true' or 'false'",
                                 "invalid-value", path) >>
         ELSE << >>
    ELSE << >>

\* validateModifiers: the loop over the pairs from position i on
RECURSIVE validateModifierPairs(_, _, _)
validateModifierPairs(modifierPairs, i, path) ==
    IF i > Len(modifierPairs) THEN << >>
    ELSE LET parts == SplitN(modifierPairs[i], "=", 2)
             rest == validateModifierPairs(modifierPairs, i + 1, path)
         IN  IF Len(parts) # 2
             THEN << ValidationError("invalid modifier syntax", "invalid-syntax", path) >>
                  \o rest
             ELSE LET modifierName == TrimSpace(parts[1])
                      modifierValue == TrimSpace(parts[2])
                  IN  IF modifierName \notin validModifiers
                      THEN << ValidationError("invalid modifier", "invalid-modifier", path) >>
                           \o rest
                      ELSE validateModifierValue(modifierName, modifierValue, path) \o rest

validateModifiers(modifiers, path) ==
    validateModifierPairs(parseModifiers(modifiers), 1, path)

validateFieldDefinition(fieldDef, path) ==
    LET parts == SplitN(fieldDef, "|", 0)
        baseType == TrimSpace(parts[1])
    IN  validateBaseType(baseType, path)
        \o (IF Len(parts) > 1 THEN validateModifiers(TrimSpace(parts[2]), path) ELSE << >>)

\* ----------------------------------------------------------- RGD validator
\* A ParsedRGD as parseRGDWithPositions builds it: a field that is absent or
\* not a string is the empty string, a section that is absent or not a map
\* is nil.  A map is the sequence of its entries in the order the range loop
\* visits them.
Path(at, names, index) == [at |-> at, names |-> names, index |-> index]

\* kubernetesVersionRegex ^v\d+(?:(?:alpha|beta)\d+)?$
IsDigits(s) == s # << >> /\ \A i \in DOMAIN s : s[i] \in Digits

validateKubernetesVersion(version) ==
    /\ version # << >>
    /\ version[1] = "v"
    /\ LET rest == Tail(version)
       IN  \E i \in 1..Len(rest) :
              /\ IsDigits(SubSeq(rest, 1, i))
              /\ \/ i = Len(rest)
                 \/ \E stage \in {<< "a", "l", "p", "h", "a" >>, << "b", "e", "t", "a" >>} :
                       /\ HasPrefix(SubSeq(rest, i + 1, Len(rest)), stage)
                       /\ IsDigits(SubSeq(rest, i + 1 + Len(stage), Len(rest)))

\* validateKubernetesObjectStructure: the error, "" for none; obj gives the
\* type of the value under each of the three keys, "absent" for a key it
\* does not have
validateKubernetesObjectStructure(obj) ==
    IF obj.apiVersion = "absent" THEN "apiVersion field is required"
    ELSE IF obj.apiVersion # "string" THEN "apiVersion must be a string"
    ELSE IF obj.kind = "absent" THEN "kind field is required"
    ELSE IF obj.kind # "string" THEN "kind must be a string"
    ELSE IF obj.metadata = "absent" THEN "metadata field is required"
    ELSE IF obj.metadata # "map" THEN "metadata must be an object"
    ELSE ""

validateBasicStructure(rgd) ==
    (IF rgd.APIVersion = ""
     THEN << ValidationError("apiVersion is required", "required-field",
                             Path("apiVersion", << >>, 0)) >>
     ELSE IF rgd.APIVersion # KroAPIVersion
     THEN << ValidationError("apiVersion must be 'kro.run/v1alpha1'", "invalid-api-version",
                             Path("apiVersion", << >>, 0)) >>
     ELSE << >>)
    \o (IF rgd.Kind = ""
        THEN << ValidationError("kind is required", "required-field",
                                Path("kind", << >>, 0)) >>
        ELSE IF rgd.Kind # RGDKind
        THEN << ValidationError("kind must be 'ResourceGraphDefinition'", "invalid-kind",
                                Path("kind", << >>, 0)) >>
        ELSE << >>)

\* validateMetadata of rgd_validator.go, on the parsed document
validateMetadataParsed(rgd) ==
    IF rgd.Metadata.isNil \/ rgd.Metadata.keys = {}
    THEN << ValidationError("metadata is required", "required-field",
                            Path("metadata", << >>, 0)) >>
    ELSE IF "name" \notin rgd.Metadata.keys
    THEN << ValidationError("metadata.name is required", "required-field",
                            Path("metadata.name", << >>, 0)) >>
    ELSE IF rgd.Metadata.name.isString
    THEN IF rgd.Metadata.name.v = ""
         THEN << ValidationError("metadata.name cannot be empty", "empty-name",
                                 Path("metadata.name", << >>, 0)) >>
         ELSE << >>
    ELSE << ValidationError("metadata.name must be a string", "invalid-type",
                            Path("metadata.name", << >>, 0)) >>

RECURSIVE validateSchemaFields(_, _, _)
validateSchemaFields(fields, basePath, prefix) ==
    IF fields = << >> THEN << >>
    ELSE LET fieldName == fields[1].name
             fieldDef == fields[1].def
             fieldPath == Path(basePath, Append(prefix, fieldName), 0)
         IN  (IF ~isValidResourceID(fieldName)
              THEN << ValidationError("field name must be lowerCamelCase", "invalid-naming",
                                      fieldPath) >>
              ELSE << >>)
             \o (IF isKroReservedWord(fieldName)
                 THEN << ValidationError("field name is a reserved word", "reserved-word",
                                         fieldPath) >>
                 ELSE << >>)
             \o (IF fieldDef.t = "string" THEN validateFieldDefinition(fieldDef.s, fieldPath)
                 ELSE IF fieldDef.t = "map"
                 THEN validateSchemaFields(fieldDef.m, basePath, Append(prefix, fieldName))
                 ELSE << ValidationError("field definition must be a string or object",
                                         "invalid-type", fieldPath) >>)
             \o validateSchemaFields(Tail(fields), basePath, prefix)

validateSchema(rgd) ==
    (IF rgd.Schema.Kind = << >>
     THEN << ValidationError("spec.schema.kind is required", "required-field",
                             Path("spec.schema.kind", << >>, 0)) >>
     ELSE IF ~isValidKindName(rgd.Schema.Kind)
     THEN << ValidationError("spec.schema.kind must be UpperCamelCase", "invalid-naming",
                             Path("spec.schema.kind", << >>, 0)) >>
     ELSE << >>)
    \o (IF rgd.Schema.APIVersion # << >> /\ ~validateKubernetesVersion(rgd.Schema.APIVersion)
        THEN << ValidationError("spec.schema.apiVersion is not a valid Kubernetes version",
                                "invalid-version", Path("spec.schema.apiVersion", << >>, 0)) >>
        ELSE << >>)
    \o (IF ~rgd.Schema.Spec.isNil
        THEN validateSchemaFields(rgd.Schema.Spec.fields, "spec.schema.spec", << >>)
        ELSE << >>)
    \o (IF ~rgd.Schema.Status.isNil
        THEN validateSchemaFields(rgd.Schema.Status.fields, "spec.schema.status", << >>)
        ELSE << >>)

validateResourceTemplate(template, path) ==
    IF validateKubernetesObjectStructure(template.obj) # ""
    THEN << ValidationError("invalid Kubernetes object", "invalid-k8s-structure", path) >>
    ELSE << >>

validateExternalRef(externalRef, index) ==
    (IF externalRef.APIVersion = ""
     THEN << ValidationError("externalRef.apiVersion is required", "required-field",
                             Path("spec.resources.externalRef.apiVersion", << >>, index)) >>
     ELSE << >>)
    \o (IF externalRef.Kind = ""
        THEN << ValidationError("externalRef.kind is required", "required-field",
                                Path("spec.resources.externalRef.kind", << >>, index)) >>
        ELSE << >>)

\* a validateResources that would not record the ids it has seen
RECURSIVE validateResourcesLoopNoRecord(_, _, _)
validateResourcesLoopNoRecord(resources, i, seenIDs) ==
    IF i > Len(resources) THEN << >>
    ELSE LET resource == resources[i]
             idPath == Path("spec.resources.id", << >>, i)
         IN  (IF resource.ID = << >>
              THEN << ValidationError("resource id is required", "required-field", idPath) >>
              ELSE (IF ~isValidResourceID(resource.ID)
                    THEN << ValidationError("resource id must be lowerCamelCase",
                                            "invalid-naming", idPath) >>
                    ELSE << >>)
                   \o (IF isKroReservedWord(resource.ID)
                       THEN << ValidationError("resource id is a reserved word",
                                               "reserved-word", idPath) >>
                       ELSE << >>)
                   \o (IF resource.ID \in seenIDs
                       THEN << ValidationError("duplicate resource id", "duplicate-id",
                                               idPath) >>
                       ELSE << >>))
             \o (IF ~resource.Template.isNil
                 THEN validateResourceTemplate(resource.Template,
                                               Path("spec.resources.template", << >>, i))
                 ELSE IF resource.ExternalRef.isNil
                 THEN << ValidationError("resource must have either 'template' or 'externalRef'",
                                         "missing-resource-definition",
                                         Path("spec.resources", << >>, i)) >>
                 ELSE << >>)
             \o (IF ~resource.ExternalRef.isNil
                 THEN validateExternalRef(resource.ExternalRef, i)
                 ELSE << >>)
             \o validateResourcesLoopNoRecord(resources, i + 1, seenIDs)

\* validateResources: the loop from resource i on, with the ids seen so far
RECURSIVE validateResourcesLoop(_, _, _)
validateResourcesLoop(resources, i, seenIDs) ==
    IF i > Len(resources) THEN << >>
    ELSE LET resource == resources[i]
             idPath == Path("spec.resources.id", << >>, i)
         IN  (IF resource.ID = << >>
              THEN << ValidationError("resource id is required", "required-field", idPath) >>
              ELSE (IF ~isValidResourceID(resource.ID)
                    THEN << ValidationError("resource id must be lowerCamelCase",
                                            "invalid-naming", idPath) >>
                    ELSE << >>)
                   \o (IF isKroReservedWord(resource.ID)
                       THEN << ValidationError("resource id is a reserved word",
                                               "reserved-word", idPath) >>
                       ELSE << >>)
                   \o (IF resource.ID \in seenIDs
                       THEN << ValidationError("duplicate resource id", "duplicate-id",
                                               idPath) >>
                       ELSE << >>))
             \o (IF ~resource.Template.isNil
                 THEN validateResourceTemplate(resource.Template,
                                               Path("spec.resources.template", << >>, i))
                 ELSE IF resource.ExternalRef.isNil
                 THEN << ValidationError("resource must have either 'template' or 'externalRef'",
                                         "missing-resource-definition",
                                         Path("spec.resources", << >>, i)) >>
                 ELSE << >>)
             \o (IF ~resource.ExternalRef.isNil
                 THEN validateExternalRef(resource.ExternalRef, i)
                 ELSE << >>)
             \o validateResourcesLoop(resources, i + 1,
                                      IF resource.ID = << >> THEN seenIDs
                                      ELSE seenIDs \cup {resource.ID})

validateResources(rgd) == validateResourcesLoop(rgd.Resources, 1, {})

validateSpecSection(rgd) ==
    (IF ~rgd.Schema.isNil THEN validateSchema(rgd) ELSE << >>) \o validateResources(rgd)

validateRGDComprehensive(rgd) ==
    validateBasicStructure(rgd)
    \o validateMetadataParsed(rgd)
    \o (IF ~rgd.Schema.isNil \/ Len(rgd.Resources) > 0 THEN validateSpecSection(rgd)
        ELSE << >>)

\* isRGDDocument reads the same two top-level strings as the parse does
isRGDDocumentParsed(rgd) == rgd.APIVersion = KroAPIVersion /\ rgd.Kind = RGDKind

\* ValidateRGD of rgd_validator.go for a document that parses
ValidateRGDParsed(rgd) ==
    IF ~isRGDDocumentParsed(rgd) THEN << >> ELSE validateRGDComprehensive(rgd)

\* validateResourceGraphDefinitionWithPositions of the validator package: the
\* loop from resource i on, with the ids seen so far
RECURSIVE validateResourcesWithPositions(_, _, _)
validateResourcesWithPositions(resources, i, seen) ==
    IF i > Len(resources) THEN << >>
    ELSE LET resource == resources[i]
             idPath == Path("spec.resources.id", << >>, i)
         IN  (IF Len(resource.ID) > 0 /\ ~IsLower(resource.ID[1])
              THEN << ValidationError("id is not a valid KRO resource id: must be lower camelCase",
                                      "", idPath) >>
              ELSE << >>)
             \o (IF resource.ID \in seen
                 THEN << ValidationError("found duplicate resource ID", "", idPath) >>
                 ELSE << >>)
             \o (IF ~resource.Template.isNil
                    /\ validateKubernetesObjectStructure(resource.Template.obj) # ""
                 THEN << ValidationError("invalid Kubernetes object in resource", "",
                                         Path("spec.resources.template", << >>, i)) >>
                 ELSE << >>)
             \o validateResourcesWithPositions(resources, i + 1, seen \cup {resource.ID})

validateResourceGraphDefinitionWithPositions(rgd) ==
    (IF rgd.Schema.isNil THEN << >>
     ELSE (IF rgd.Schema.Kind # << >>
           THEN IF ~IsUpper(rgd.Schema.Kind[1])
                THEN << ValidationError(
                          "kind is not a valid KRO kind name: must be UpperCamelCase", "",
                          Path("spec.schema.kind", << >>, 0)) >>
                ELSE << >>
           ELSE << ValidationError("spec.schema.kind is required", "",
                                   Path("spec.schema", << >>, 0)) >>)
          \o (IF rgd.Schema.APIVersion # << >> /\ rgd.Schema.APIVersion[1] # "v"
              THEN << ValidationError(
                        "apiVersion is not a valid Kubernetes version, must start with 'v'",
                        "", Path("spec.schema.apiVersion", << >>, 0)) >>
              ELSE << >>))
    \o validateResourcesWithPositions(rgd.Resources, 1, {})

\* ------------------------------------------------------ validator inputs
MaxIdentLen == 3     \* characters of a generated identifier
MaxResources == 3    \* resources of a generated document

IdentChars == {"k", "r", "o", "K", "R", "_", "1"}
Idents == UNION {[1..n -> IdentChars] : n \in 1..MaxIdentLen}

\* identifiers a document may use: the generated ones and the reserved words
Names == Idents \cup reservedWords

NilMetadata == [isNil |-> TRUE, keys |-> {}, name |-> StrVal("")]
GoodMetadata == [isNil |-> FALSE, keys |-> {"name"}, name |-> StrVal("app")]
Metadatas ==
    {NilMetadata, GoodMetadata,
     [isNil |-> FALSE, keys |-> {}, name |-> StrVal("")],
     [isNil |-> FALSE, keys |-> {"labels"}, name |-> StrVal("")],
     [isNil |-> FALSE, keys |-> {"name", "labels"}, name |-> StrVal("")],
     [isNil |-> FALSE, keys |-> {"name"}, name |-> NonStr("7")]}

StringDef(s) == [t |-> "string", s |-> s, m |-> << >>]
MapDef(m) == [t |-> "map", s |-> << >>, m |-> m]
OtherDef == [t |-> "other", s |-> << >>, m |-> << >>]
Field(name, def) == [name |-> name, def |-> def]

NilFields == [isNil |-> TRUE, fields |-> << >>]
Fields(fields) == [isNil |-> FALSE, fields |-> fields]

NilSchema ==
    [isNil |-> TRUE, Kind |-> << >>, APIVersion |-> << >>, Spec |-> NilFields,
     Status |-> NilFields]
Schema(kind, apiVersion, spec, status) ==
    [isNil |-> FALSE, Kind |-> kind, APIVersion |-> apiVersion, Spec |-> spec,
     Status |-> status]

StringType == << "s", "t", "r", "i", "n", "g" >>
WebApp == << "W", "e", "b", "A", "p", "p" >>
V1Alpha1 == << "v", "1", "a", "l", "p", "h", "a", "1" >>
GoodSchema ==
    Schema(WebApp, V1Alpha1, Fields(<< Field(<< "r", "e", "p", "l", "i", "c", "a", "s" >>,
                                             StringDef(StringType)) >>), NilFields)

NilTemplate ==
    [isNil |-> TRUE, obj |-> [apiVersion |-> "absent", kind |-> "absent", metadata |-> "absent"]]
GoodTemplate ==
    [isNil |-> FALSE, obj |-> [apiVersion |-> "string", kind |-> "string", metadata |-> "map"]]
BadTemplates ==
    {[isNil |-> FALSE, obj |-> [apiVersion |-> a, kind |-> k, metadata |-> m]] :
        a \in {"absent", "string"}, k \in {"string", "int"}, m \in {"absent", "map"}}
    \ {GoodTemplate}

NilExternalRef == [isNil |-> TRUE, APIVersion |-> "", Kind |-> ""]
GoodExternalRef == [isNil |-> FALSE, APIVersion |-> "v1", Kind |-> "ConfigMap"]
BadExternalRefs ==
    {[isNil |-> FALSE, APIVersion |-> a, Kind |-> k] : a \in {"", "v1"}, k \in {"", "ConfigMap"}}
    \ {GoodExternalRef}

Resource(id, template, externalRef) ==
    [ID |-> id, Template |-> template, ExternalRef |-> externalRef]
GoodResource == Resource(<< "k" >>, GoodTemplate, NilExternalRef)

RGD(apiVersion, kind, metadata, schema, resources) ==
    [APIVersion |-> apiVersion, Kind |-> kind, Metadata |-> metadata, Schema |-> schema,
     Resources |-> resources]

\* documents that differ in the top-level fields
HeaderRGDs ==
    {RGD(a, k, m, s, r) :
        a \in {"", KroAPIVersion, "kro.run/v1alpha2"},
        k \in {"", RGDKind, "ConfigMap"},
        m \in Metadatas,
        s \in {NilSchema, GoodSchema},
        r \in {<< >>, << GoodResource >>}}

\* documents that differ in the resources: their count, ids, and which of
\* template and externalRef each has
ResourceLists ==
    UNION {[1..n -> {Resource(id, t, e) : id \in {<< >>, << "k" >>, << "r" >>},
                                          t \in {NilTemplate, GoodTemplate},
                                          e \in {NilExternalRef, GoodExternalRef}}] :
              n \in 1..MaxResources}
ResourceRGDs ==
    {RGD(KroAPIVersion, RGDKind, GoodMetadata, NilSchema, r) : r \in ResourceLists}
    \cup {RGD(KroAPIVersion, RGDKind, GoodMetadata, GoodSchema, << Resource(<< "k" >>, t, e) >>) :
             t \in BadTemplates \cup {NilTemplate}, e \in BadExternalRefs \cup {NilExternalRef}}

\* documents that differ in one identifier: the schema kind, a resource id,
\* a schema field name
NamingRGDs ==
    {RGD(KroAPIVersion, RGDKind, GoodMetadata,
         Schema(n, V1Alpha1, NilFields, NilFields), << GoodResource >>) :
        n \in Names \cup {<< >>}}
    \cup {RGD(KroAPIVersion, RGDKind, GoodMetadata, GoodSchema,
              << Resource(n, GoodTemplate, NilExternalRef) >>) : n \in Names}
    \cup {RGD(KroAPIVersion, RGDKind, GoodMetadata,
              Schema(WebApp, V1Alpha1, Fields(<< Field(n, StringDef(StringType)) >>), NilFields),
              << GoodResource >>) : n \in Names}

\* documents that differ in the schema: its version, and the shape of its
\* spec and status maps
SchemaRGDs ==
    {RGD(KroAPIVersion, RGDKind, GoodMetadata, Schema(WebApp, v, spec, status), << >>) :
        v \in {<< >>, << "v", "1" >>, V1Alpha1, << "1" >>, << "v", "1", "b", "e", "t", "a" >>},
        spec \in {NilFields, Fields(<< >>),
                  Fields(<< Field(<< "k" >>, StringDef(StringType)),
                            Field(<< "K" >>, OtherDef) >>),
                  Fields(<< Field(<< "K" >>, OtherDef),
                            Field(<< "k" >>, StringDef(StringType)) >>),
                  Fields(<< Field(<< "o" >>,
                                  MapDef(<< Field(<< "k", "r", "o" >>,
                                                  StringDef(<< "x" >>)) >>)) >>)},
        status \in {NilFields, Fields(<< Field(<< "s", "p", "e", "c" >>,
                                               StringDef(StringType)) >>)}}

RGDs == HeaderRGDs \cup ResourceRGDs \cup NamingRGDs \cup SchemaRGDs

\* what step 5 of ValidateKroFileWithPositions passes on: documents in which
\* steps 1 to 4 found nothing
PositionedRGDs ==
    {rgd \in RGDs : /\ rgd.APIVersion = KroAPIVersion
                    /\ rgd.Kind = RGDKind
                    /\ rgd.Metadata = GoodMetadata}

\* ------------------------------------------------------ validator calls
CallValidateRGD ==
    /\ vFn = "ValidateRGD"
    /\ vPc = "call"
    /\ vOut' = ValidateRGDParsed(vIn)
    /\ vPc' = "done"
    /\ UNCHANGED << docVars, crdVars, ghVars, refreshVars, vFn, vIn >>

CallValidateResourceGraphDefinitionWithPositions ==
    /\ vFn = "validateResourceGraphDefinitionWithPositions"
    /\ vPc = "call"
    /\ vOut' = validateResourceGraphDefinitionWithPositions(vIn)
    /\ vPc' = "done"
    /\ UNCHANGED << docVars, crdVars, ghVars, refreshVars, vFn, vIn >>

InitRGD ==
    /\ NewManager
    /\ NewCRDManager
    /\ manager = "collect"
    /\ NoGitHubFetch
    /\ NoBackgroundRefresh
    /\ \/ vFn = "ValidateRGD" /\ vIn \in RGDs
       \/ vFn = "validateResourceGraphDefinitionWithPositions" /\ vIn \in PositionedRGDs
    /\ vPc = "call"
    /\ vOut = << >>

NextRGD ==
    \/ CallValidateRGD
    \/ CallValidateResourceGraphDefinitionWithPositions

SpecRGD == InitRGD /\ [][NextRGD]_vars

\* ------------------------------------------------ field definition inputs
MaxTypeLen == 7      \* lexemes of a generated type expression
MaxModifiers == 3    \* modifiers of a generated field definition
MaxValueLen == 2     \* characters of a generated quoted value

RECURSIVE Concat(_)
Concat(pieces) == IF pieces = << >> THEN << >> ELSE Head(pieces) \o Concat(Tail(pieces))

MapWord == << "m", "a", "p" >>
IntegerType == << "i", "n", "t", "e", "g", "e", "r" >>
TypeLexemes == {StringType, MapWord, << "[" >>, << "]" >>}

\* type expressions as sequences of lexemes: all short ones over the four
\* lexemes, and some with other words and with blanks
TypeExpressions ==
    UNION {[1..n -> TypeLexemes] : n \in 0..MaxTypeLen}
    \cup {<< t >> : t \in validBaseTypes}
    \cup {<< << "x" >> >>, << << "S", "t", "r", "i", "n", "g" >> >>,
          << << "[" >>, << "]" >>, << "x" >> >>,
          << << "[" >>, << "]" >>, MapWord, << "[" >>, StringType, << "]" >>, IntegerType >>,
          << MapWord, << "[" >>, StringType, << "]" >>, MapWord, << "[" >>, StringType,
             << "]" >>, IntegerType >>,
          << MapWord, << "[" >>, << " " >>, StringType, << " " >>, << "]" >>, StringType >>,
          << MapWord, << "[" >>, StringType, << "]" >>, << " " >>, StringType >>,
          << << "[" >>, << "]" >>, << " " >>, StringType >>}

\* a modifier as it is written: name, "=" or nothing, and the value, bare or
\* between two quote characters
Modifier(name, eq, quote, value) == [name |-> name, eq |-> eq, quote |-> quote, value |-> value]
Render(modifier) ==
    modifier.name \o (IF modifier.eq THEN << "=" >> ELSE << >>)
    \o (IF modifier.quote = "" THEN modifier.value
        ELSE << modifier.quote >> \o modifier.value \o << modifier.quote >>)

\* the field definition "<base> | <modifier> <modifier> ..."
RECURSIVE RenderAll(_)
RenderAll(modifiers) ==
    IF modifiers = << >> THEN << >>
    ELSE IF Len(modifiers) = 1 THEN Render(modifiers[1])
    ELSE Render(modifiers[1]) \o << " " >> \o RenderAll(Tail(modifiers))
FieldDefinition(def) ==
    IF def.modifiers = << >> THEN def.base
    ELSE def.base \o << " ", "|", " " >> \o RenderAll(def.modifiers)

ModifierNames == validModifiers \cup {<< >>, << "b", "o", "g", "u", "s" >>,
                                      << "R", "e", "q", "u", "i", "r", "e", "d" >>}
BareValues ==
    {<< "t", "r", "u", "e" >>, << "f", "a", "l", "s", "e" >>, << "T", "r", "u", "e" >>,
     << "5" >>, << "-", "3" >>, << "1", ".", "5" >>, << "a", "b", "c" >>, << >>}
BareModifiers ==
    {Modifier(n, TRUE, "", v) : n \in ModifierNames, v \in BareValues}
    \cup {Modifier(n, FALSE, "", << >>) : n \in ModifierNames \ {<< >>}}
FewModifiers ==
    {Modifier(<< "r", "e", "q", "u", "i", "r", "e", "d" >>, TRUE, "", << "t", "r", "u", "e" >>),
     Modifier(<< "m", "i", "n", "i", "m", "u", "m" >>, TRUE, "", << "a", "b", "c" >>),
     Modifier(<< "b", "o", "g", "u", "s" >>, TRUE, "", << "5" >>),
     Modifier(<< "m", "a", "x", "I", "t", "e", "m", "s" >>, FALSE, "", << >>)}

ValueChars == {"a", " ", "|", "="}
QuotedValues == UNION {[1..n -> ValueChars] : n \in 0..MaxValueLen}
QuotedModifiers ==
    {Modifier(n, TRUE, q, v) : n \in {<< "p", "a", "t", "t", "e", "r", "n" >>,
                                      << "d", "e", "f", "a", "u", "l", "t" >>},
                               q \in {"'", "\""}, v \in QuotedValues}

BaseTypes ==
    {StringType, IntegerType, << "[", "]" >> \o StringType, << "x" >>}

\* field definitions: one bare modifier of every kind after each base type,
\* up to MaxModifiers of a few, and one or two with quoted values
FieldDefinitions ==
    {[base |-> b, modifiers |-> << m >>] : b \in BaseTypes, m \in BareModifiers}
    \cup {[base |-> b, modifiers |-> ms] :
             b \in {StringType, << "x" >>},
             ms \in UNION {[1..n -> FewModifiers] : n \in 0..MaxModifiers}}
    \cup {[base |-> StringType, modifiers |-> << m >>] : m \in QuotedModifiers}
    \cup {[base |-> StringType, modifiers |-> << m, n >>] :
             m \in QuotedModifiers,
             n \in {Modifier(<< "r", "e", "q", "u", "i", "r", "e", "d" >>, TRUE, "",
                             << "t", "r", "u", "e" >>),
                    Modifier(<< "d", "e", "s", "c", "r", "i", "p", "t", "i", "o", "n" >>,
                             TRUE, "\"", << "a", " ", "a" >>)}}

\* the modifier tokens validateFieldDefinition hands to the modifier check
modifierPairs(fieldDef) ==
    LET parts == SplitN(fieldDef, "|", 0)
    IN  IF Len(parts) > 1 THEN parseModifiers(TrimSpace(parts[2])) ELSE << >>

\* ------------------------------------------------- field definition calls
CallValidateBaseType ==
    /\ vFn = "validateBaseType"
    /\ vPc = "call"
    /\ vOut' = validateBaseType(Concat(vIn), Path("spec.schema.spec", << << "k" >> >>, 0))
    /\ vPc' = "done"
    /\ UNCHANGED << docVars, crdVars, ghVars, refreshVars, vFn, vIn >>

CallValidateFieldDefinition ==
    /\ vFn = "validateFieldDefinition"
    /\ vPc = "call"
    /\ vOut' = [errors |-> validateFieldDefinition(FieldDefinition(vIn),
                               Path("spec.schema.spec", << << "k" >> >>, 0)),
                modifierPairs |-> modifierPairs(FieldDefinition(vIn))]
    /\ vPc' = "done"
    /\ UNCHANGED << docVars, crdVars, ghVars, refreshVars, vFn, vIn >>

InitGrammar ==
    /\ NewManager
    /\ NewCRDManager
    /\ manager = "collect"
    /\ NoGitHubFetch
    /\ NoBackgroundRefresh
    /\ \/ vFn = "validateBaseType" /\ vIn \in TypeExpressions
       \/ vFn = "validateFieldDefinition" /\ vIn \in FieldDefinitions
    /\ vPc = "call"
    /\ vOut = << >>

NextGrammar ==
    \/ CallValidateBaseType
    \/ CallValidateFieldDefinition

SpecGrammar == InitGrammar /\ [][NextGrammar]_vars

\* ------------------------------------------------- validation against a CRD
\* CRDManager.ValidateAgainstCRD (validation/crd_manager.go) on a cache that a
\* LoadCRDs cycle has filled.  A document is the template of one resource, one
\* field of it: its value is a string or an integer.

\* ValidationMode
ValidationModeStrict == "strict"
ValidationModePermissive == "permissive"
ValidationModeOff == "off"
ValidationModes == {ValidationModeStrict, ValidationModePermissive, ValidationModeOff}

\* strings.Contains
Contains(s, substr) ==
    \E i \in 1..(Len(s) - Len(substr) + 1) : SubSeq(s, i, i + Len(substr) - 1) = substr

\* parser.IsCELExpression: a string value that holds "${" and "}"
IsCELExpression(value) ==
    /\ value.isString
    /\ Contains(value.s, << "$", "{" >>)
    /\ Contains(value.s, << "}" >>)

Diagnostic(field, message) == [Field |-> field, Message |-> message]

\* validateOpenAPISchema: "TODO: Implement OpenAPI schema validation",
\* return nil, nil.  Before it, a check of the field against the type, pattern
\* and enum of the schema, as an implementation without a template exemption
\* would make it.
validateOpenAPISchemaConstraints(document, schema) ==
    LET value == document.replicas
    IN  (IF schema.type = "integer" /\ value.isString
         THEN << Diagnostic("replicas", "type") >> ELSE << >>)
        \o (IF schema.pattern = "digits" /\ value.isString /\ ~IsDigits(value.s)
            THEN << Diagnostic("replicas", "pattern") >> ELSE << >>)
        \o (IF schema.enum # {} /\ value.s \notin schema.enum
            THEN << Diagnostic("replicas", "enum") >> ELSE << >>)

validateOpenAPISchema(document, schema) == << >>

\* validateCELRules: "TODO: Implement CEL rule validation", return nil, nil
validateCELRules(document, rules) == << >>

\* ValidateAgainstCRD(gvk, document) under config.ValidationMode = mode, with
\* the identity index as GetCRDByGVK reads it
ValidateAgainstCRD(mode, index, gvk, document) ==
    IF mode = ValidationModeOff THEN << >>
    ELSE IF IndexKey(gvk) \notin DOMAIN index THEN << >>
    ELSE LET schema == index[IndexKey(gvk)]
         IN  (IF ~schema.OpenAPISchema.isNil
              THEN validateOpenAPISchema(document, schema.OpenAPISchema) ELSE << >>)
             \o (IF Len(schema.CELRules) > 0
                 THEN validateCELRules(document, schema.CELRules) ELSE << >>)

\* schema.OpenAPISchema: nil, or the constraints on the field
NilOpenAPISchema == [isNil |-> TRUE, type |-> "", pattern |-> "", enum |-> {}]

OpenAPISchemas ==
    {NilOpenAPISchema}
    \cup {[isNil |-> FALSE, type |-> t, pattern |-> p, enum |-> e] :
            t \in {"string", "integer"},
            p \in {"", "digits"},
            e \in {{}, {<< "1" >>, << "2" >>}}}

\* CELRule
CELRule == [Rule |-> "self.replicas > 0", Message |-> "replicas must be positive",
            Path |-> "spec.replicas"]

\* a CRDSchema with its OpenAPISchema and CELRules
ConstrainedCRDSchema(gvk, open, rules) ==
    [GVK |-> gvk, Source |-> 1, Index |-> 1, OpenAPISchema |-> open, CELRules |-> rules]

\* what a LoadCRDs cycle may have stored: nothing, or the schema of one identity
CachedSchemas ==
    {<< >>}
    \cup {<< ConstrainedCRDSchema(gvk, open, rules) >> :
            gvk \in GVKs, open \in OpenAPISchemas, rules \in {<< >>, << CELRule >>}}

\* the value of the field: a plain string, a string holding "${", an integer
FieldValues ==
    {[isString |-> TRUE, s |-> s] :
        s \in {<< "1" >>, << "a" >>, << "$", "{", "a", "}" >>, << "$", "{", "a" >>,
               << "a", "$", "{", "}" >>}}
    \cup {[isString |-> FALSE, s |-> << "1" >>], [isString |-> FALSE, s |-> << "3" >>]}

Documents == {[replicas |-> value] : value \in FieldValues}

\* one call of ValidateAgainstCRD under the read lock of GetCRDByGVK
CallValidateAgainstCRD ==
    /\ vFn = "ValidateAgainstCRD"
    /\ vPc = "call"
    /\ Readable
    /\ vOut' = [diagnostics |-> ValidateAgainstCRD(vIn.mode, gvkIndex, vIn.gvk, vIn.document),
                err |-> FALSE]
    /\ vPc' = "done"
    /\ UNCHANGED << docVars, crdVars, ghVars, refreshVars, vFn, vIn >>

\* one call of parser.IsCELExpression on the value of a field
CallIsCELExpression ==
    /\ vFn = "IsCELExpression"
    /\ vPc = "call"
    /\ vOut' = IsCELExpression(vIn)
    /\ vPc' = "done"
    /\ UNCHANGED << docVars, crdVars, ghVars, refreshVars, vFn, vIn >>

InitCRDValidation ==
    /\ NewManager
    /\ manager = "collect"
    /\ \E schemas \in CachedSchemas :
          /\ crdCache = IndexByName(<< >>, schemas)
          /\ gvkIndex = IndexByGVK(<< >>, schemas)
    /\ cacheMutex = 0
    /\ cyc = [c \in Cyclers |-> IdleCycle]
    /\ lookup = NoLookup
    /\ lastDone = << >>
    /\ NoGitHubFetch
    /\ NoBackgroundRefresh
    /\ \/ /\ vFn = "ValidateAgainstCRD"
          /\ vIn \in [mode : ValidationModes, gvk : GVKs, document : Documents]
       \/ vFn = "IsCELExpression" /\ vIn \in FieldValues
    /\ vPc = "call"
    /\ vOut = << >>

NextCRDValidation ==
    \/ CallValidateAgainstCRD
    \/ CallIsCELExpression

SpecCRDValidation == InitCRDValidation /\ [][NextCRDValidation]_vars

\* ----------------------------------------------------- repeated validation
\* ValidateRGD called twice on one content.  The schema fields of the content
\* are written in document order; yaml.Unmarshal puts them in a Go map, and
\* "for fieldName, fieldDef := range fields" visits a map in an order that the
\* runtime chooses anew for every loop.
MaxFields == 3    \* schema fields of a generated document

\* the orders in which a range loop may visit the entries of a map
RangeOrders(fields) ==
    {[i \in DOMAIN fields |-> fields[p[i]]] :
        p \in {q \in [DOMAIN fields -> DOMAIN fields] :
                  \A i, j \in DOMAIN fields : i # j => q[i] # q[j]}}

\* the spec fields of a document: distinct keys, each with a definition
FieldMaps ==
    {fields \in UNION {[1..n -> {Field(name, def) :
                                    name \in {<< "k" >>, << "K" >>, << "i", "f" >>},
                                    def \in {StringDef(StringType), StringDef(<< "x" >>),
                                             OtherDef}}] : n \in 0..MaxFields} :
        \A i, j \in DOMAIN fields : i # j => fields[i].name # fields[j].name}

RepeatedRGDs ==
    {RGD(KroAPIVersion, RGDKind, GoodMetadata,
         Schema(WebApp, V1Alpha1, Fields(fields), NilFields), << GoodResource >>) :
        fields \in FieldMaps}

\* one call of ValidateRGD on the content: the first, then the second
CallValidateRGDAgain ==
    /\ vFn = "ValidateRGD twice"
    /\ vPc \in {"call", "again"}
    /\ \E visited \in RangeOrders(vIn.Schema.Spec.fields) :
          vOut' = Append(vOut,
                         ValidateRGDParsed([vIn EXCEPT !.Schema.Spec.fields = visited]))
    /\ vPc' = IF vPc = "call" THEN "again" ELSE "done"
    /\ UNCHANGED << docVars, crdVars, ghVars, refreshVars, vFn, vIn >>

InitRepeat ==
    /\ NewManager
    /\ NewCRDManager
    /\ manager = "collect"
    /\ NoGitHubFetch
    /\ NoBackgroundRefresh
    /\ vFn = "ValidateRGD twice"
    /\ vIn \in RepeatedRGDs
    /\ vPc = "call"
    /\ vOut = << >>

NextRepeat == CallValidateRGDAgain

SpecRepeat == InitRepeat /\ [][NextRepeat]_vars

\* ---------------------------------------------------------------- positions
\* Where a diagnostic is put.  A YAML document is the sequence of its key
\* lines, each given by the path of its key (the keys of the mappings around
\* it, then its own); line i of the text is element i.  A key with no key
\* below it has a scalar (or empty) value.  Scalars are non-empty strings,
\* apiVersion and kind the ones of an RGD.

\* the key lines a document may have, in the order of the text
KeyLines ==
    << << "apiVersion" >>, << "kind" >>, << "metadata" >>, << "metadata", "labels" >>,
       << "metadata", "name" >>, << "spec" >>, << "spec", "schema" >>, << "spec", "schema", "kind" >> >>

YAMLDocuments ==
    {LET written(p) == p \in chosen IN SelectSeq(KeyLines, written) :
        chosen \in {c \in SUBSET {KeyLines[i] : i \in DOMAIN KeyLines} :
                       \A p \in c : Len(p) > 1 => SubSeq(p, 1, Len(p) - 1) \in c}}

\* findNodeAtPath / findInMapping from the mapping at path `at`: the Line of
\* the key node that the components lead to, 0 for nil
RECURSIVE findNodeAtPath(_, _, _)
findNodeAtPath(yamlNode, at, pathComponents) ==
    LET currentKey == pathComponents[1]
        remainingPath == Tail(pathComponents)
        keyNodes == {i \in DOMAIN yamlNode : yamlNode[i] = Append(at, currentKey)}
    IN  IF keyNodes = {} THEN 0
        ELSE IF remainingPath = << >> THEN CHOOSE i \in keyNodes : \A j \in keyNodes : i <= j
        ELSE findNodeAtPath(yamlNode, Append(at, currentKey), remainingPath)

\* getLineNumber, the path already split at "."
getLineNumber(yamlNode, pathComponents) ==
    LET node == findNodeAtPath(yamlNode, << >>, pathComponents)
    IN  IF node # 0 THEN node ELSE 1

\* createDiagnostic: err.Column is never set
createDiagnostic(err) ==
    LET line == IF err.Line = 0 THEN 1 ELSE err.Line
    IN  [Range |-> [Start |-> [Line |-> line - 1, Character |-> 0],
                    End |-> [Line |-> line - 1, Character |-> 10]],
         Severity |-> "error",
         Message |-> err.Message]

\* strings.Split(path, ".") for the paths of the metadata errors
pathComponents(path) ==
    IF path = "metadata" THEN << "metadata" >> ELSE << "metadata", "name" >>

\* rgd.Metadata as parseRGDWithPositions fills it: doc["metadata"] when it is
\* a map
ParsedMetadata(yamlNode) ==
    LET keys == {p[2] : p \in {yamlNode[i] : i \in DOMAIN yamlNode} \cap
                            {<< "metadata", "labels" >>, << "metadata", "name" >>}}
    IN  IF keys = {} THEN NilMetadata
        ELSE [isNil |-> FALSE, keys |-> keys, name |-> StrVal("app")]

\* validateMetadataWithPosition of the validator package; doc.Positions and
\* doc.NestedFields hold the key lines, counted from 0
validateMetadataWithPosition(doc) ==
    LET Positions(key) == {i - 1 : i \in {j \in DOMAIN doc : doc[j] = << key >>}}
        metadataExists == Positions("metadata") # {}
        kindLine == IF Positions("kind") # {} THEN CHOOSE l \in Positions("kind") : TRUE
                    ELSE 1
        metadataLine == CHOOSE l \in Positions("metadata") : TRUE
        isMap == \E i \in DOMAIN doc : Len(doc[i]) = 2 /\ doc[i][1] = "metadata"
        nameExists == \E i \in DOMAIN doc : doc[i] = << "metadata", "name" >>
    IN  IF ~metadataExists
        THEN << [Message |-> "metadata section is required", Line |-> kindLine + 1,
                 Column |-> 0, EndLine |-> kindLine + 1, EndCol |-> 8] >>
        ELSE IF ~isMap
        THEN << [Message |-> "metadata must be a mapping", Line |-> metadataLine,
                 Column |-> 0, EndLine |-> metadataLine, EndCol |-> 100] >>
        ELSE IF ~nameExists
        THEN << [Message |-> "metadata.name is required and must be a non-empty string",
                 Line |-> metadataLine + 1, Column |-> 2, EndLine |-> metadataLine + 1,
                 EndCol |-> 6] >>
        ELSE << >>

\* one diagnostic made for an error at a path of the document
CallCreateDiagnostic ==
    /\ vFn = "createDiagnostic"
    /\ vPc = "call"
    /\ vOut' = createDiagnostic([Message |-> "", Column |-> 0,
                                 Line |-> getLineNumber(vIn.yamlNode, vIn.path)])
    /\ vPc' = "done"
    /\ UNCHANGED << docVars, crdVars, ghVars, refreshVars, vFn, vIn >>

\* RGDValidator.validateMetadata and the diagnostics ValidateRGD makes of it
CallValidateMetadata ==
    /\ vFn = "validateMetadata"
    /\ vPc = "call"
    /\ LET errors == validateMetadataParsed([Metadata |-> ParsedMetadata(vIn)])
       IN  vOut' = [i \in DOMAIN errors |->
                       createDiagnostic(
                           [Message |-> errors[i].Message, Column |-> 0,
                            Line |-> getLineNumber(vIn, pathComponents(errors[i].Path.at))])]
    /\ vPc' = "done"
    /\ UNCHANGED << docVars, crdVars, ghVars, refreshVars, vFn, vIn >>

CallValidateMetadataWithPosition ==
    /\ vFn = "validateMetadataWithPosition"
    /\ vPc = "call"
    /\ vOut' = validateMetadataWithPosition(vIn)
    /\ vPc' = "done"
    /\ UNCHANGED << docVars, crdVars, ghVars, refreshVars, vFn, vIn >>

InitPosition ==
    /\ NewManager
    /\ NewCRDManager
    /\ manager = "collect"
    /\ NoGitHubFetch
    /\ NoBackgroundRefresh
    /\ \/ /\ vFn = "createDiagnostic"
          /\ vIn \in [yamlNode : YAMLDocuments, path : {KeyLines[i] : i \in DOMAIN KeyLines}]
       \/ vFn \in {"validateMetadata", "validateMetadataWithPosition"} /\ vIn \in YAMLDocuments
    /\ vPc = "call"
    /\ vOut = << >>

NextPosition ==
    \/ CallCreateDiagnostic
    \/ CallValidateMetadata
    \/ CallValidateMetadataWithPosition

SpecPosition == InitPosition /\ [][NextPosition]_vars

\* ------------------------------------------------------------------- ranges
\* Range.Contains (parser/position.go) and IsPositionInRange of the later
\* parser package, on positions of a small text.  A position is a line and a
\* column (Character in the later package).
MaxLine == 3      \* lines of the text
MaxColumn == 2    \* columns of a line

Positions == [Line : 1..MaxLine, Column : 0..MaxColumn]

\* Range.IsValid: Start is not after End
Ranges ==
    {r \in [Start : Positions, End : Positions] :
        \/ r.Start.Line < r.End.Line
        \/ r.Start.Line = r.End.Line /\ r.Start.Column <= r.End.Column}

\* func (r Range) Contains(pos Position) bool
RangeContains(r, pos) ==
    IF pos.Line < r.Start.Line \/ pos.Line > r.End.Line THEN FALSE
    ELSE IF pos.Line = r.Start.Line /\ pos.Column < r.Start.Column THEN FALSE
    ELSE IF pos.Line = r.End.Line /\ pos.Column > r.End.Column THEN FALSE
    ELSE TRUE

\* func IsPositionInRange(pos Position, r Range) bool
IsPositionInRange(pos, r) ==
    IF pos.Line < r.Start.Line \/ (pos.Line = r.Start.Line /\ pos.Column < r.Start.Column)
    THEN FALSE
    ELSE IF pos.Line > r.End.Line \/ (pos.Line = r.End.Line /\ pos.Column > r.End.Column)
    THEN FALSE
    ELSE TRUE

CallRangeContains ==
    /\ vFn = "Range.Contains"
    /\ vPc = "call"
    /\ vOut' = RangeContains(vIn.r, vIn.pos)
    /\ vPc' = "done"
    /\ UNCHANGED << docVars, crdVars, ghVars, refreshVars, vFn, vIn >>

CallIsPositionInRange ==
    /\ vFn = "IsPositionInRange"
    /\ vPc = "call"
    /\ vOut' = IsPositionInRange(vIn.pos, vIn.r)
    /\ vPc' = "done"
    /\ UNCHANGED << docVars, crdVars, ghVars, refreshVars, vFn, vIn >>

InitRange ==
    /\ NewManager
    /\ NewCRDManager
    /\ manager = "collect"
    /\ NoGitHubFetch
    /\ NoBackgroundRefresh
    /\ vFn \in {"Range.Contains", "IsPositionInRange"}
    /\ vIn \in [r : Ranges, pos : Positions]
    /\ vPc = "call"
    /\ vOut = << >>

NextRange ==
    \/ CallRangeContains
    \/ CallIsPositionInRange

SpecRange == InitRange /\ [][NextRange]_vars

\* ------------------------------------------------------------- properties
\* C1: an Update on a uri that is not in the document table is a no-op: the
\* step creates no document and stores no model, the document table and the
\* model store stay exactly as they were, and the call returns without parsing.
C1_UpdateUnknownIsNoOp ==
    [][\A t \in Threads :
          ((th[t].pc = "update" /\ th'[t].pc # "update") /\ th[t].uri \notin DOMAIN documents)
          => /\ documents' = documents
             /\ modelStore' = modelStore
             /\ dsLock' = dsLock
             /\ th'[t] = Idle]_vars

\* C1, the case: an UpdateDocument call is about to run on a uri that a Close
\* has taken out of both stores
C1_Witness ==
    \E t \in Threads : /\ th[t].pc = "update"
                       /\ StoreFree
                       /\ th[t].uri \notin DOMAIN documents
                       /\ th[t].uri \notin DOMAIN modelStore

\* C2: once a Close of uri has returned with no Open since, and every Update
\* of uri that was in flight has finished, neither the document table nor the
\* model store holds an entry for uri.
C2_CloseDropsAllState ==
    \A u \in URIs :
        (session[u] = "closed" /\ ~InFlight(u, {"open", "change", "save"}))
        => (u \notin DOMAIN documents /\ u \notin DOMAIN modelStore)

\* C3: when the store update of a change notification carrying the full text T
\* at version v completes, the document holds version v and content T, whatever
\* the shape of the change event.
C3_ChangeReplacesWholesale ==
    [][\A t \in Threads :
          ((th[t].pc = "update_content" /\ th'[t].pc # "update_content") /\ th[t].op = "change")
          => documents'[th[t].uri] = [Version |-> th[t].version, Content |-> th[t].text]]_vars

\* C4: the version stored for an open uri never becomes smaller.
C4_VersionNonDecreasing ==
    [][\A u \in DOMAIN documents \cap DOMAIN documents' :
          documents'[u].Version >= documents[u].Version]_vars

\* C5: a reader that got the document through Get and has read both fields
\* holds the content that was written together with the version it read.
C5_ReaderSeesOneWrite ==
    \A t \in Threads : th[t].pc = "read_done" => th[t].newContent = th[t].expect

\* C6: once every Open/Update call on an open uri has returned, the model
\* stored for it is the parse of the content stored for it (the nil model when
\* that content does not parse).
C6_ModelIsParseOfContent ==
    \A u \in URIs :
        (session[u] = "open" /\ ~InFlight(u, {"open", "change", "save"}))
        => /\ u \in DOMAIN documents
           /\ ModelExists(u)
           /\ modelStore[u] = Parse(documents[u].Content)

\* C7: an Open/Update whose text fails to parse leaves no tree for the uri (the
\* earlier tree is gone), one whose text parses installs the tree of that text,
\* and between two such calls only a Close changes the model store.
C7_ParseFailureLeavesNoTree ==
    [][/\ \A t \in Threads :
             (th[t].pc = "parse" /\ th'[t].pc # "parse")
             => /\ th[t].uri \in DOMAIN modelStore'
                /\ IF Parse(th[t].newContent).isNil
                   THEN modelStore'[th[t].uri].isNil
                   ELSE /\ ~modelStore'[th[t].uri].isNil
                        /\ modelStore'[th[t].uri] = Parse(th[t].newContent)
       /\ modelStore' # modelStore
          => \E t \in Threads : (th[t].pc = "parse" /\ th'[t].pc # "parse") \/ (th[t].pc = "close_model" /\ th'[t].pc # "close_model")]_vars

\* C7, the case: a tree was stored, a later text failed to parse, and a later
\* parseable text has installed a tree again
C7_Witness ==
    \E u \in URIs : /\ modelHist[u] = "restored"
                    /\ ModelExists(u)
                    /\ ~modelStore[u].isNil

\* C8: every GetType call answers RGD exactly when the uri has a model whose
\* root mapping has string apiVersion kro.run/v1alpha1 and string kind
\* ResourceGraphDefinition, YAML for every other model, and Unknown when the
\* uri has no model.
C8_GetTypeClassifies ==
    \A t \in Threads :
        th[t].docType # ""
        => th[t].docType = (IF ~th[t].exists \/ th[t].seen.isNil THEN "Unknown"
                            ELSE IF /\ {"apiVersion", "kind"} \subseteq DOMAIN th[t].seen.RootMap
                                    /\ th[t].seen.RootMap["apiVersion"]
                                         = [isString |-> TRUE, v |-> "kro.run/v1alpha1"]
                                    /\ th[t].seen.RootMap["kind"]
                                         = [isString |-> TRUE, v |-> "ResourceGraphDefinition"]
                                 THEN "RGD"
                            ELSE "YAML")

\* C9: when the text stored by the last open or change of an open uri failed to
\* parse and no handler or validation goroutine is left to run, the list
\* published for the uri is the single syntax-error diagnostic.
C9_ParseFailurePublished ==
    \A u \in URIs :
        (/\ Quiescent
         /\ session[u] = "open"
         /\ u \in DOMAIN documents
         /\ Parse(documents[u].Content).isNil
         /\ ModelExists(u)
         /\ modelStore[u].isNil)
        => published[u] = << SyntaxDiag >>

\* C10: no interleaving of open, update, close, validate and hover makes the
\* server crash.
C10_NeverCrashes == ~crashed

\* C11: every open, change and save notification for an open document starts a
\* validation pass for its uri: when the handler of a notification whose text
\* parses returns, one more validation goroutine has been started.  (Texts that
\* fail to parse are the subject of C9.)
C11_EveryEventStartsValidation ==
    [][\A t \in Threads :
          (/\ th[t].pc = "parse" /\ th'[t].pc # "parse"
           /\ th[t].uri \in DOMAIN documents
           /\ ~Parse(th[t].newContent).isNil)
          => pendingVal'[th[t].uri] = pendingVal[th[t].uri] + 1]_vars

\* C12: the last publish wins: whenever a validation pass publishes, the list
\* published for the uri becomes that pass's list, whatever the other passes
\* of the uri have read or published.
C12_LastPublishWins ==
    [][\A t \in Threads :
          (th[t].pc = "validate_publish" /\ th'[t].pc # "validate_publish")
          => published'[th[t].uri] = th[t].diags]_vars

\* C12, the case: two passes of one uri overlap, both about to publish, and the
\* one that read the model before the last update holds a syntax-error list
\* although a tree is stored now
C12_Witness ==
    \E t1, t2 \in Threads :
        /\ t1 # t2
        /\ th[t1].uri = th[t2].uri
        /\ th[t1].pc = "validate_publish" /\ th[t2].pc = "validate_publish"
        /\ th[t1].diags = << SyntaxDiag >>
        /\ th[t2].diags # << SyntaxDiag >>
        /\ ModelExists(th[t1].uri) /\ ~modelStore[th[t1].uri].isNil

\* C13: a lookup hits exactly when a source that succeeded in the cycle that
\* completed last returned a schema of exactly the identity looked up
C13_HitIffReturnedByLastCycle ==
    [][(lookup.pc = "idle" /\ lookup'.pc = "read")
       => (lookup'.exists
           <=> \E s \in DOMAIN lastDone :
                  /\ ~lastDone[s].err
                  /\ \E j \in DOMAIN lastDone[s].schemas :
                        lastDone[s].schemas[j].GVK = lookup'.gvk)]_vars

\* a lookup missed an identity while the last cycle cached another one
C13_Witness ==
    /\ lookup.pc = "read"
    /\ ~lookup.exists
    /\ gvkIndex # << >>
    /\ \E s \in DOMAIN lastDone : ~lastDone[s].err /\ lastDone[s].schemas # << >>

\* C14: a lookup, also one made while LoadCRDs calls are running, reads a cache
\* that is the whole merged result of the one cycle that completed last
C14_LookupSeesOneWholeCycle ==
    [][(lookup.pc = "idle" /\ lookup'.pc = "read")
       => gvkIndex = IndexByGVK(<< >>, AllSchemas(lastDone))]_vars

\* a lookup has read a filled cache while two LoadCRDs calls are under way, one
\* of them holding schemas that differ from the cached ones
C14_Witness ==
    /\ lookup.pc = "read"
    /\ lookup.exists
    /\ \A c \in Cyclers : cyc[c].pc # "idle"
    /\ \E c \in Cyclers : Len(cyc[c].got) = NSources /\ cyc[c].got # lastDone

\* C15: a LoadCRDs call ends only after every source was asked, reports
\* success, and leaves the schemas of the sources that succeeded in the cache
C15_SourceFailureDoesNotAbort ==
    [][\A c \in Cyclers :
          (cyc[c].pc # "idle" /\ cyc'[c].pc = "idle")
          => /\ cyc'[c].ret = "nil"
             /\ Len(cyc[c].got) = NSources
             /\ \A s \in DOMAIN cyc[c].got :
                   ~cyc[c].got[s].err
                   => \A j \in DOMAIN cyc[c].got[s].schemas :
                         IndexKey(cyc[c].got[s].schemas[j].GVK) \in DOMAIN gvkIndex']_vars

\* the first source failed, the second one's schemas are cached
C15_Witness ==
    \E c \in Cyclers :
        /\ cyc[c].pc = "unlock"
        /\ cyc[c].got[1].err
        /\ ~cyc[c].got[NSources].err
        /\ cyc[c].got[NSources].schemas # << >>
        /\ gvkIndex # << >>

\* C16: once a cycle in which every source failed has completed, the cache is empty
C16_AllFailedEmptiesCache ==
    (/\ cacheMutex = 0
     /\ lastDone # << >>
     /\ \A s \in DOMAIN lastDone : lastDone[s].err)
    => gvkIndex = << >> /\ crdCache = << >>

\* every source failed in a cycle that found identities in the cache
C16_Witness ==
    \E c \in Cyclers :
        /\ cyc[c].pc = "unlock"
        /\ Len(cyc[c].got) = NSources
        /\ \A s \in DOMAIN cyc[c].got : cyc[c].got[s].err
        /\ cyc[c].old # {}
        /\ gvkIndex = << >>

\* C17: of the schemas of one identity that a cycle collected, the cache holds
\* the one of the last source in order and, within it, the last one returned
C17_LastProcessedWins ==
    cacheMutex = 0
    => \A k \in DOMAIN gvkIndex :
          /\ gvkIndex[k].Source \in DOMAIN lastDone
          /\ ~lastDone[gvkIndex[k].Source].err
          /\ gvkIndex[k].Index \in DOMAIN lastDone[gvkIndex[k].Source].schemas
          /\ lastDone[gvkIndex[k].Source].schemas[gvkIndex[k].Index] = gvkIndex[k]
          /\ \A s \in DOMAIN lastDone :
                \A j \in DOMAIN lastDone[s].schemas :
                    lastDone[s].schemas[j].GVK = gvkIndex[k].GVK
                    => \/ s < gvkIndex[k].Source
                       \/ s = gvkIndex[k].Source /\ j <= gvkIndex[k].Index

\* one identity came from the first source and twice from the last one, and a
\* lookup got the last of them
C17_Witness ==
    /\ lookup.pc = "read"
    /\ lookup.exists
    /\ lookup.schema = CRDSchema(lookup.gvk, NSources, 2)
    /\ Len(lastDone) = NSources
    /\ \E j \in DOMAIN lastDone[1].schemas : lastDone[1].schemas[j].GVK = lookup.gvk
    /\ Len(lastDone[NSources].schemas) = 2
    /\ \A j \in DOMAIN lastDone[NSources].schemas :
          lastDone[NSources].schemas[j].GVK = lookup.gvk

\* C18: the schemas a GitHub source returns for a file are exactly one per
\* served version of every CustomResourceDefinition document in it, each with
\* the name of that version
C18_OneSchemaPerServedVersion ==
    ghPc = "done"
    => /\ Len(ghSchemas)
          = Cardinality({ik \in (DOMAIN ghFile) \X (1..MaxVersions) :
                           /\ ghFile[ik[1]].kind = "CustomResourceDefinition"
                           /\ ik[2] \in DOMAIN ghFile[ik[1]].versions
                           /\ ghFile[ik[1]].versions[ik[2]].Served})
       /\ \A n \in DOMAIN ghSchemas :
             /\ ghSchemas[n].CRD \in DOMAIN ghFile
             /\ ghFile[ghSchemas[n].CRD].kind = "CustomResourceDefinition"
             /\ \E k \in DOMAIN ghFile[ghSchemas[n].CRD].versions :
                   /\ ghFile[ghSchemas[n].CRD].versions[k].Served
                   /\ ghFile[ghSchemas[n].CRD].versions[k].Name = ghSchemas[n].GVK.Version
       /\ \A i \in DOMAIN ghFile :
             \A k \in DOMAIN ghFile[i].versions :
                 (ghFile[i].kind = "CustomResourceDefinition" /\ ghFile[i].versions[k].Served)
                 => \E n \in DOMAIN ghSchemas :
                       ghSchemas[n] = GitHubSchema(i, ghFile[i].versions[k].Name)

\* C19: once Stop has returned the background goroutine starts no refresh cycle
C19_NoCycleStartsAfterStop ==
    [][stopper = "returned" => ~(bg # "cycle" /\ bg' = "cycle")]_vars

\* C20: every LoadCRDs call that is running was given a context with a deadline
C20_EveryCycleHasDeadline ==
    \A c \in Cyclers : cyc[c].pc # "idle" => ctx[c] = "deadline"

\* C21: missing kind short-circuits all later stages: validating a document
\* that lacks kind yields exactly one diagnostic, a structural error that
\* refers to kind, and no other diagnostic, whatever else the document holds.
C21_MissingKindYieldsOneKindError ==
    (vFn = "ValidateRGD" /\ vPc = "done" /\ vIn.Kind = "")
        => /\ Len(vOut) = 1
           /\ vOut[1].Path.at = "kind"

\* C22: each resource must have exactly one of template and externalRef: a
\* resource with both gets an error of its own (the "mutually exclusive"
\* one, any error at the resource other than "must have either"), a resource
\* with neither gets the "must have either" error, a resource with exactly
\* one gets neither, and no resource gets both errors.
C22_ExactlyOneOfTemplateOrExternalRef ==
    (vFn = "ValidateRGD" /\ vPc = "done" /\ isRGDDocumentParsed(vIn))
        => \A i \in DOMAIN vIn.Resources :
              LET hasTemplate == ~vIn.Resources[i].Template.isNil
                  hasExternalRef == ~vIn.Resources[i].ExternalRef.isNil
                  atResource == {k \in DOMAIN vOut :
                                    /\ vOut[k].Path.at = "spec.resources"
                                    /\ vOut[k].Path.index = i}
                  either == {k \in atResource :
                                vOut[k].Rule = "missing-resource-definition"}
                  exclusive == atResource \ either
              IN  /\ (hasTemplate /\ hasExternalRef) <=> exclusive # {}
                  /\ (~hasTemplate /\ ~hasExternalRef) <=> either # {}
                  /\ ~(exclusive # {} /\ either # {})

C24_WellFormedIsSilent ==
    LET lowerCamel(n) == /\ n # << >>
                         /\ IsLower(n[1])
                         /\ \A i \in 2..Len(n) : IsAlnum(n[i])
        upperCamel(n) == /\ n # << >>
                         /\ IsUpper(n[1])
                         /\ \A i \in 2..Len(n) : IsAlnum(n[i])
        reserved(n) == \E w \in reservedWords :
                          /\ Len(w) = Len(n)
                          /\ \A i \in DOMAIN w : ToLower(w[i]) = ToLower(n[i])
        namesOf(fields) ==
            {fields[i].name : i \in DOMAIN fields}
            \cup UNION {{fields[i].def.m[j].name : j \in DOMAIN fields[i].def.m} :
                           i \in {f \in DOMAIN fields : fields[f].def.t = "map"}}
        fieldNames == namesOf(vIn.Schema.Spec.fields) \cup namesOf(vIn.Schema.Status.fields)
        ids == [i \in DOMAIN vIn.Resources |-> vIn.Resources[i].ID]
        wellFormed ==
            /\ vIn.APIVersion = KroAPIVersion
            /\ vIn.Kind = RGDKind
            /\ ~vIn.Metadata.isNil
            /\ "name" \in vIn.Metadata.keys
            /\ vIn.Metadata.name.isString
            /\ vIn.Metadata.name.v # ""
            /\ vIn.Schema.isNil \/ upperCamel(vIn.Schema.Kind)
            /\ \A n \in fieldNames : lowerCamel(n) /\ ~reserved(n)
            /\ \A i \in DOMAIN ids : lowerCamel(ids[i]) /\ ~reserved(ids[i])
            /\ \A i, j \in DOMAIN ids : ids[i] = ids[j] => i = j
    IN  (vPc = "done" /\ vFn \in {"ValidateRGD", "validateResourceGraphDefinitionWithPositions"}
         /\ wellFormed)
           => \A k \in DOMAIN vOut :
                 /\ vOut[k].Path.at \notin {"apiVersion", "kind", "metadata", "metadata.name",
                                            "spec.schema", "spec.schema.kind",
                                            "spec.resources.id"}
                 /\ vOut[k].Rule \notin {"invalid-naming", "reserved-word", "duplicate-id"}

\* C24, the case: a document with a schema, a field and a resource, all
\* following the rules, validated with no diagnostic at all
C24_Witness ==
    /\ vFn = "ValidateRGD"
    /\ vPc = "done"
    /\ vIn = RGD(KroAPIVersion, RGDKind, GoodMetadata, GoodSchema, << GoodResource >>)
    /\ vOut = << >>

\* C25: naming rules, on the whole identifier: a schema kind gets a naming
\* error exactly when it is not UpperCamelCase, a resource id and a schema
\* field name exactly when it is not lowerCamelCase; in the validator package
\* the rule is the one on resource ids.
C25_NamingErrorIffNotCamelCase ==
    LET lowerCamel(n) == /\ IsLower(n[1])
                         /\ \A i \in 2..Len(n) : IsAlnum(n[i])
        upperCamel(n) == /\ IsUpper(n[1])
                         /\ \A i \in 2..Len(n) : IsAlnum(n[i])
        naming(at, names, index) ==
            \E k \in DOMAIN vOut :
               /\ vOut[k].Path = Path(at, names, index)
               /\ \/ vOut[k].Rule = "invalid-naming"
                  \/ vOut[k].Message =
                        "id is not a valid KRO resource id: must be lower camelCase"
        fields == vIn.Schema.Spec.fields
    IN  /\ (vFn = "ValidateRGD" /\ vPc = "done" /\ isRGDDocumentParsed(vIn))
           => /\ (~vIn.Schema.isNil /\ vIn.Schema.Kind # << >>)
                    => (naming("spec.schema.kind", << >>, 0) <=> ~upperCamel(vIn.Schema.Kind))
              /\ \A i \in DOMAIN vIn.Resources :
                    vIn.Resources[i].ID # << >>
                       => (naming("spec.resources.id", << >>, i)
                              <=> ~lowerCamel(vIn.Resources[i].ID))
              /\ \A i \in DOMAIN fields :
                    naming("spec.schema.spec", << fields[i].name >>, 0)
                       <=> ~lowerCamel(fields[i].name)
        /\ (vFn = "validateResourceGraphDefinitionWithPositions" /\ vPc = "done")
           => \A i \in DOMAIN vIn.Resources :
                 vIn.Resources[i].ID # << >>
                    => (naming("spec.resources.id", << >>, i)
                           <=> ~lowerCamel(vIn.Resources[i].ID))

\* C26: a resource id or schema field name gets a reserved-word error exactly
\* when it equals an entry of the reserved-word list up to the case of its
\* letters.
C26_ReservedWordErrorIffListed ==
    LET listed(n) == \E w \in reservedWords :
                        /\ Len(w) = Len(n)
                        /\ \A i \in DOMAIN w : ToLower(w[i]) = ToLower(n[i])
        reservedAt(at, names, index) ==
            \E k \in DOMAIN vOut : /\ vOut[k].Path = Path(at, names, index)
                                   /\ vOut[k].Rule = "reserved-word"
        spec == vIn.Schema.Spec.fields
        status == vIn.Schema.Status.fields
    IN  (vFn = "ValidateRGD" /\ vPc = "done" /\ isRGDDocumentParsed(vIn))
           => /\ \A i \in DOMAIN vIn.Resources :
                    reservedAt("spec.resources.id", << >>, i) <=> listed(vIn.Resources[i].ID)
              /\ \A i \in DOMAIN spec :
                    /\ reservedAt("spec.schema.spec", << spec[i].name >>, 0)
                          <=> listed(spec[i].name)
                    /\ spec[i].def.t = "map"
                          => \A j \in DOMAIN spec[i].def.m :
                                reservedAt("spec.schema.spec",
                                           << spec[i].name, spec[i].def.m[j].name >>, 0)
                                   <=> listed(spec[i].def.m[j].name)
              /\ \A i \in DOMAIN status :
                    reservedAt("spec.schema.status", << status[i].name >>, 0)
                       <=> listed(status[i].name)

\* C26, the case: a field name that is lowerCamelCase and differs from the
\* reserved word kro in the case of a letter, reported as reserved
C26_Witness ==
    /\ vFn = "ValidateRGD"
    /\ vPc = "done"
    /\ ~vIn.Schema.isNil
    /\ Len(vIn.Schema.Spec.fields) = 1
    /\ vIn.Schema.Spec.fields[1].name = << "k", "R", "o" >>
    /\ \E k \in DOMAIN vOut :
          /\ vOut[k].Rule = "reserved-word"
          /\ vOut[k].Path = Path("spec.schema.spec", << << "k", "R", "o" >> >>, 0)
    /\ \A k \in DOMAIN vOut : vOut[k].Rule # "invalid-naming"

\* C27: modifiers are checked syntactically only.  For a field definition
\* whose modifiers are written without quotes, the modifier errors are as
\* many as the modifiers that are not a name=value pair with a whitelisted
\* name and a value of the type the name demands (true or false for required
\* and uniqueItems, a number for minimum and maximum, an integer for
\* minLength, maxLength, minItems and maxItems, anything for the others);
\* the base type plays no part in them, and is accepted or rejected on its
\* own.
C27_ModifiersCheckedSyntacticallyOnly ==
    LET booleans == {<< "r", "e", "q", "u", "i", "r", "e", "d" >>,
                     << "u", "n", "i", "q", "u", "e", "I", "t", "e", "m", "s" >>}
        numbers == {<< "m", "i", "n", "i", "m", "u", "m" >>,
                    << "m", "a", "x", "i", "m", "u", "m" >>}
        integers == {<< "m", "i", "n", "L", "e", "n", "g", "t", "h" >>,
                     << "m", "a", "x", "L", "e", "n", "g", "t", "h" >>,
                     << "m", "i", "n", "I", "t", "e", "m", "s" >>,
                     << "m", "a", "x", "I", "t", "e", "m", "s" >>}
        accepted(m) ==
            /\ m.eq
            /\ m.name \in validModifiers
            /\ m.name \in booleans
                  => m.value \in {<< "t", "r", "u", "e" >>, << "f", "a", "l", "s", "e" >>}
            /\ m.name \in numbers
                  => m.value \in {<< "5" >>, << "-", "3" >>, << "1", ".", "5" >>}
            /\ m.name \in integers => m.value \in {<< "5" >>, << "-", "3" >>}
        aboutModifiers == {k \in DOMAIN vOut.errors :
                              vOut.errors[k].Rule \in {"invalid-syntax", "invalid-modifier",
                                                       "invalid-value"}}
    IN  (/\ vFn = "validateFieldDefinition"
         /\ vPc = "done"
         /\ \A i \in DOMAIN vIn.modifiers : vIn.modifiers[i].quote = "")
           => /\ Cardinality(aboutModifiers)
                    = Cardinality({i \in DOMAIN vIn.modifiers : ~accepted(vIn.modifiers[i])})
              /\ (DOMAIN vOut.errors \ aboutModifiers = {})
                    <=> vIn.base \in {StringType, IntegerType, << "[", "]" >> \o StringType}

\* C27, the case: string | minimum=5 is validated with no error
C27_Witness ==
    /\ vFn = "validateFieldDefinition"
    /\ vPc = "done"
    /\ vIn = [base |-> StringType,
              modifiers |-> << Modifier(<< "m", "i", "n", "i", "m", "u", "m" >>, TRUE, "",
                                        << "5" >>) >>]
    /\ vOut.errors = << >>
    /\ vOut.modifierPairs = << << "m", "i", "n", "i", "m", "u", "m", "=", "5" >> >>

\* C28: the base-type check accepts a type expression exactly when the
\* grammar T ::= string | integer | boolean | number | object | []T |
\* map[T]T generates it.
C28_AcceptsExactlyTheGrammar ==
    LET RECURSIVE generated(_)
        generated(t) ==
            \/ Len(t) = 1 /\ t[1] \in validBaseTypes
            \/ /\ Len(t) >= 3
               /\ t[1] = << "[" >>
               /\ t[2] = << "]" >>
               /\ generated(SubSeq(t, 3, Len(t)))
            \/ /\ Len(t) >= 5
               /\ t[1] = MapWord
               /\ t[2] = << "[" >>
               /\ \E k \in 4..(Len(t) - 1) :
                     /\ t[k] = << "]" >>
                     /\ generated(SubSeq(t, 3, k - 1))
                     /\ generated(SubSeq(t, k + 1, Len(t)))
    IN  (vFn = "validateBaseType" /\ vPc = "done")
           => (vOut = << >> <=> generated(vIn))

\* C29: modifier tokenization honours quoting: every modifier of a field
\* definition, quoted value included, reaches the modifier check as one
\* token name=value with its whole value, whatever characters stand between
\* the quotes.
C29_QuotedValueIsOneToken ==
    (/\ vFn = "validateFieldDefinition"
     /\ vPc = "done"
     /\ \A i \in DOMAIN vIn.modifiers : vIn.modifiers[i].eq)
        => vOut.modifierPairs = [i \in DOMAIN vIn.modifiers |-> Render(vIn.modifiers[i])]

\* C30: a string value containing "${" is never flagged by a pattern, enum or
\* type check, under any cached schema: when the field of the template holds
\* such a string, validation against the CRD returns no diagnostic for that
\* field.
C30_TemplateStringIsNeverFlagged ==
    (/\ vFn = "ValidateAgainstCRD"
     /\ vPc = "done"
     /\ vIn.document.replicas.isString
     /\ Contains(vIn.document.replicas.s, << "$", "{" >>))
        => \A i \in DOMAIN vOut.diagnostics : vOut.diagnostics[i].Field # "replicas"

\* a "${a}" value validated in strict mode against a cached schema that asks
\* for an integer matching a pattern and an enum
C30_Witness ==
    /\ vFn = "ValidateAgainstCRD"
    /\ vPc = "done"
    /\ vIn.mode = ValidationModeStrict
    /\ vIn.document.replicas = [isString |-> TRUE, s |-> << "$", "{", "a", "}" >>]
    /\ IndexKey(vIn.gvk) \in DOMAIN gvkIndex
    /\ ~gvkIndex[IndexKey(vIn.gvk)].OpenAPISchema.isNil
    /\ gvkIndex[IndexKey(vIn.gvk)].OpenAPISchema.type = "integer"
    /\ gvkIndex[IndexKey(vIn.gvk)].OpenAPISchema.pattern = "digits"
    /\ gvkIndex[IndexKey(vIn.gvk)].OpenAPISchema.enum # {}
    /\ vOut.diagnostics = << >>

\* C31: with validation enabled, a resource template whose (group, version,
\* kind) is not in the cache gets a diagnostic (of severity warning): the
\* result of validating it against the cache is not empty.
C31_CacheMissYieldsWarning ==
    (/\ vFn = "ValidateAgainstCRD"
     /\ vPc = "done"
     /\ vIn.mode # ValidationModeOff
     /\ IndexKey(vIn.gvk) \notin DOMAIN gvkIndex)
        => vOut.diagnostics # << >>

\* C32: validation is idempotent and deterministic: two validations of the
\* same content return the same diagnostics in the same order.
C32_SameContentSameDiagnostics ==
    (vFn = "ValidateRGD twice" /\ vPc = "done") => vOut[1] = vOut[2]

\* C33: the range of a diagnostic is that of the node at its path when the
\* node exists, otherwise that of the deepest existing ancestor on the path,
\* and the document start only when no ancestor exists.
C33_RangeAtNodeThenAncestorThenStart ==
    (vFn = "createDiagnostic" /\ vPc = "done")
        => LET doc == vIn.yamlNode
               located == {k \in 1..Len(vIn.path) :
                              \E i \in DOMAIN doc : doc[i] = SubSeq(vIn.path, 1, k)}
               deepest == CHOOSE k \in located : \A j \in located : j <= k
               line == CHOOSE i \in DOMAIN doc : doc[i] = SubSeq(vIn.path, 1, deepest)
           IN  vOut.Range.Start.Line = IF located = {} THEN 0 ELSE line - 1

\* C34: an RGD document with apiVersion and kind but no metadata gets the
\* error "metadata must have 'name' field", placed where metadata is expected:
\* on the line after the last existing top-level field.
C34_MissingMetadataReportedInPlace ==
    (/\ vFn \in {"validateMetadata", "validateMetadataWithPosition"}
     /\ vPc = "done"
     /\ \E i \in DOMAIN vIn : vIn[i] = << "apiVersion" >>
     /\ \E i \in DOMAIN vIn : vIn[i] = << "kind" >>
     /\ \A i \in DOMAIN vIn : vIn[i] # << "metadata" >>)
        => \E i \in DOMAIN vOut :
              /\ vOut[i].Message = "metadata must have 'name' field"
              /\ Len(vIn) = IF vFn = "validateMetadata" THEN vOut[i].Range.Start.Line
                            ELSE vOut[i].Line

\* C35: a Range is the half-open interval [Start, End): Contains(pos) is true
\* exactly for the positions at or after Start and strictly before End in
\* (line, character) order.
C35_ContainsIsHalfOpen ==
    (vFn \in {"Range.Contains", "IsPositionInRange"} /\ vPc = "done")
        => (vOut <=>
               /\ \/ vIn.r.Start.Line < vIn.pos.Line
                  \/ vIn.r.Start.Line = vIn.pos.Line /\ vIn.r.Start.Column <= vIn.pos.Column
               /\ \/ vIn.pos.Line < vIn.r.End.Line
                  \/ vIn.pos.Line = vIn.r.End.Line /\ vIn.pos.Column < vIn.r.End.Column)

\* C36: once the DidClose of a uri has returned (the document was opened once,
\* never changed and not opened again), no validation goroutine of the uri is
\* waiting or running and no handler of the uri is in flight, the list
\* published last for the uri is empty.
C36_ClosedDocumentStaysCleared ==
    \A u \in URIs :
        (/\ session[u] = "closed"
         /\ clientVer[u] = 1
         /\ pendingVal[u] = 0
         /\ \A t \in Threads : th[t].uri # u)
        => published[u] = << >>

\* C37: published diagnostics follow the current content: when a change
\* handler returns having stored a text that parses and is not an RGD, and no
\* other handler or validation goroutine is left to run, the list published
\* last for the uri is empty.
C37_ChangeToNonRGDClearsDiagnostics ==
    [][\A t \in Threads :
          (/\ th[t].op = "change"
           /\ th[t].pc = "parse" /\ th'[t].pc = "idle"
           /\ ~Parse(th[t].newContent).isNil
           /\ ~isRGDFile(th[t].newContent)
           /\ \A s \in Threads : th'[s].pc = "idle"
           /\ \A u \in URIs : pendingVal'[u] = 0)
          => published'[th[t].uri] = << >>]_vars

\* C38: every ValidateDocument call publishes exactly one list for its uri
\* when the uri is in the document table, and none when it is not: a call
\* that finds no document publishes nothing and ends; a call that found the
\* document publishes nothing before its last step, does not die before it,
\* and ends by publishing its list.
C38_OnePublishPerValidation ==
    [][/\ \A u \in URIs :
             (pendingVal'[u] < pendingVal[u] /\ u \notin DOMAIN documents)
             => (published' = published /\ th' = th)
       /\ \A t \in Threads :
             (th[t].op = "validate" /\ th'[t] # th[t])
             => /\ ~crashed'
                /\ th'[t].pc # "idle" => published' = published
                /\ th'[t].pc = "idle"
                      => /\ th[t].pc = "validate_publish"
                         /\ published' = [published EXCEPT ![th[t].uri] = th[t].diags]]_vars

\* C39: after every cache rebuild the two indexes hold the same records: once
\* a LoadCRDs call has returned and a reader can take the lock, the set of
\* schemas GetAllCRDs returns is the set of schemas GetCRDByGVK can return.
C39_BothIndexesHoldTheSameRecords ==
    (/\ manager = "collect"
     /\ Readable
     /\ \E c \in Cyclers : cyc[c].ret = "nil")
        => GetAllCRDs = {gvkIndex[IndexKey(gvk)] :
                            gvk \in {g \in GVKs : IndexKey(g) \in DOMAIN gvkIndex}}

\* C40: a schema lookup never waits on a source fetch: while a LoadCRDs call
\* still has a source to query it does not hold the cache lock, and the
\* identity index is the one the last completed call built.
C40_LookupNeverWaitsOnFetch ==
    \A c \in Cyclers :
        cyc[c].pc \in {"query", "query_locked"}
        => /\ cacheMutex # c
           /\ gvkIndex = IndexByGVK(<< >>, AllSchemas(lastDone))

====
